---------------------------- MODULE Spec2Model ----------------------------
(***************************************************************************)
(* Model of the verification pipeline of vigilant_ai (analysis_agent):     *)
(* OrchestratorAgent.execute_verification and _smart_verify_steps, the     *)
(* triage predicate and the adjudication parsers of VerificationAgent, the *)
(* timeline matching of VideoTimeline / ComprehensiveVisionAgent and the   *)
(* report of DeviationReport.                                              *)
(*                                                                         *)
(* Conventions.  A Python str that the code searches with `in`, lower() or *)
(* a regular expression is a sequence of one-character strings, so that    *)
(* substring search and case folding are computed, not assumed.  A float   *)
(* confidence is an integer number of hundredths (0.85 is 85), a timestamp *)
(* an integer number of tenths of a second (0.5 s is 5), a progress value  *)
(* an exact fraction <<numerator, denominator>>.  An Optional value is a   *)
(* sequence of length 0 (None) or 1.                                       *)
(***************************************************************************)
EXTENDS Integers, Sequences, FiniteSets, TLC

-----------------------------------------------------------------------------
(* Text: str.lower() and the `in` operator on strings.                     *)

UpperChars ==
  <<"A","B","C","D","E","F","G","H","I","J","K","L","M","N","O","P","Q","R","S","T","U","V","W","X","Y","Z">>

LowerChars ==
  <<"a","b","c","d","e","f","g","h","i","j","k","l","m","n","o","p","q","r","s","t","u","v","w","x","y","z">>

LowerOf ==
  [c \in {UpperChars[i] : i \in 1..Len(UpperChars)} |->
     LowerChars[CHOOSE i \in 1..Len(UpperChars) : UpperChars[i] = c]]

\* str.lower(): every upper-case letter is replaced, everything else kept.
Lower(t) ==
  [i \in 1..Len(t) |-> IF t[i] \in DOMAIN LowerOf THEN LowerOf[t[i]] ELSE t[i]]

\* `p in t` for two strings: p occurs in t as a contiguous run of characters.
Contains(t, p) ==
  \E i \in 1..(Len(t) - Len(p) + 1) : SubSeq(t, i, i + Len(p) - 1) = p

\* any(p in t for p in ps)
ContainsAny(t, ps) == \E k \in 1..Len(ps) : Contains(t, ps[k])

-----------------------------------------------------------------------------
(* VerificationAgent: the triage predicate.                                *)

NEGATIVE_INDICATORS ==
  << <<"n","o","t"," ","v","i","s","i","b","l","e">>,
     <<"n","o","t"," ","a","v","a","i","l","a","b","l","e">>,
     <<"n","o","t"," ","p","r","e","s","e","n","t">>,
     <<"n","o","t"," ","f","o","u","n","d">>,
     <<"i","s"," ","m","i","s","s","i","n","g">>,
     <<"d","o","e","s"," ","n","o","t"," ","a","p","p","e","a","r">>,
     <<"d","o","e","s"," ","n","o","t"," ","e","x","i","s","t">>,
     <<"c","a","n","n","o","t"," ","s","e","e">>,
     <<"c","a","n","n","o","t"," ","f","i","n","d">>,
     <<"n","o"," ","l","o","n","g","e","r">>,
     <<"f","a","i","l","s">>,
     <<"f","a","i","l","e","d">>,
     <<"f","a","i","l","u","r","e">>,
     <<"a","s","s","e","r","t","i","o","n"," ","f","a","i","l","e","d">>,
     <<"n","o","t"," ","d","i","s","p","l","a","y","e","d">>,
     <<"u","n","a","v","a","i","l","a","b","l","e">>,
     <<"a","b","s","e","n","t">> >>

assertion_markers ==
  << <<"a","s","s","e","r","t","i","o","n",":">>,
     <<"a","s","s","e","r","t"," ","t","h","a","t">>,
     <<"v","a","l","i","d","a","t","e"," ","t","h","a","t">>,
     <<"v","e","r","i","f","y"," ","t","h","a","t">>,
     <<"c","o","n","f","i","r","m"," ","t","h","a","t">>,
     <<"e","n","s","u","r","e"," ","t","h","a","t">>,
     <<"s","h","o","u","l","d"," ","b","e">>,
     <<"m","u","s","t"," ","b","e">>,
     <<"e","x","p","e","c","t">> >>

interaction_keywords ==
  << <<"f","i","l","t","e","r">>,
     <<"s","e","l","e","c","t">>,
     <<"a","p","p","l","y">>,
     <<"c","l","i","c","k">>,
     <<"c","h","o","o","s","e">>,
     <<"c","h","e","c","k">>,
     <<"t","o","g","g","l","e">> >>

\* any(marker in action_lower or marker in desc_lower for marker in ...)
_is_assertion_step(step) ==
  \E k \in 1..Len(assertion_markers) :
     \/ Contains(Lower(step.action), assertion_markers[k])
     \/ Contains(Lower(step.description), assertion_markers[k])

\* `if not text: return False`, then any(indicator in text.lower() ...)
_contains_negative_observations(text) ==
  IF text = <<>> THEN FALSE ELSE ContainsAny(Lower(text), NEGATIVE_INDICATORS)

\* Lower and upper end of the borderline band of trigger 3, and the floor of
\* trigger 4 (hundredths).
BorderlineLow == 50
BorderlineHigh == 90
AmbiguousFloor == 30

\* The chain of early returns of needs_llm_verification, in the code's order.
\* A variant of triage without trigger 3, the borderline confidence
TriageWithoutBorderline(step, evidence) ==
  IF _is_assertion_step(step) THEN TRUE
  ELSE IF _contains_negative_observations(evidence.description) THEN TRUE
  ELSE IF _contains_negative_observations(evidence.reasoning) THEN TRUE
  ELSE IF ~evidence.found /\ evidence.confidence > AmbiguousFloor THEN TRUE
  ELSE IF ContainsAny(Lower(step.action), interaction_keywords) THEN TRUE
  ELSE FALSE

needs_llm_verification(step, evidence) ==
  IF _is_assertion_step(step) THEN TRUE
  ELSE IF _contains_negative_observations(evidence.description) THEN TRUE
  ELSE IF _contains_negative_observations(evidence.reasoning) THEN TRUE
  ELSE IF BorderlineLow <= evidence.confidence /\ evidence.confidence < BorderlineHigh
       THEN TRUE
  ELSE IF ~evidence.found /\ evidence.confidence > AmbiguousFloor THEN TRUE
  ELSE IF ContainsAny(Lower(step.action), interaction_keywords) THEN TRUE
  ELSE FALSE

-----------------------------------------------------------------------------
(* Sequences and numbers rendered as text.                                 *)

Min(a, b) == IF a <= b THEN a ELSE b

Max(a, b) == IF a >= b THEN a ELSE b

\* s[:n]
Take(s, n) == SubSeq(s, 1, Min(n, Len(s)))

RECURSIVE Join(_, _)
\* sep.join(parts)
Join(parts, sep) ==
  IF parts = <<>> THEN <<>>
  ELSE IF Len(parts) = 1 THEN parts[1]
  ELSE parts[1] \o sep \o Join(Tail(parts), sep)

Digits == <<"0","1","2","3","4","5","6","7","8","9">>

RECURSIVE IntStr(_)
\* str(n) of a natural number
IntStr(n) == IF n < 10 THEN <<Digits[n + 1]>> ELSE IntStr(n \div 10) \o <<Digits[(n % 10) + 1]>>

\* f"{t:.1f}" of a non-negative time held in tenths of a second
Fmt1(t) == IntStr(t \div 10) \o <<".">> \o <<Digits[(t % 10) + 1]>>

-----------------------------------------------------------------------------
(* ComprehensiveVisionAgent._extract_keywords                              *)

stop_words ==
  { <<"t","h","e">>, <<"a">>, <<"a","n">>, <<"a","n","d">>, <<"o","r">>,
    <<"b","u","t">>, <<"i","n">>, <<"o","n">>, <<"a","t">>, <<"t","o">>,
    <<"f","o","r">>, <<"o","f">>, <<"w","i","t","h">>, <<"i","s">>,
    <<"a","r","e">>, <<"w","a","s">>, <<"w","e","r","e">>, <<"b","e">>,
    <<"b","e","e","n">>, <<"t","h","a","t">>, <<"t","h","i","s">>, <<"i","t">>,
    <<"a","s">>, <<"b","y">>, <<"f","r","o","m">>,
    <<"s","h","o","u","l","d">>, <<"w","i","l","l">> }

\* \w of the regular expressions, on ASCII text
WordChar(c) ==
  \/ \E i \in 1..Len(LowerChars) : LowerChars[i] = c \/ UpperChars[i] = c
  \/ \E i \in 1..Len(Digits) : Digits[i] = c
  \/ c = "_"

RECURSIVE WordsFrom(_, _, _)
\* re.findall(r'\b\w+\b', text): the maximal runs of word characters
WordsFrom(t, i, cur) ==
  IF i > Len(t) THEN (IF cur = <<>> THEN <<>> ELSE <<cur>>)
  ELSE IF WordChar(t[i]) THEN WordsFrom(t, i + 1, Append(cur, t[i]))
  ELSE (IF cur = <<>> THEN <<>> ELSE <<cur>>) \o WordsFrom(t, i + 1, <<>>)

\* least index >= i of a double quote in t, or 0
NextQuote(t, i) ==
  IF \E j \in i..Len(t) : t[j] = "\""
  THEN CHOOSE j \in i..Len(t) : t[j] = "\"" /\ \A k \in i..(j - 1) : t[k] # "\""
  ELSE 0

RECURSIVE QuotedFrom(_, _)
\* re.findall(r'"([^"]*)"', text): the texts between successive pairs of quotes
QuotedFrom(t, i) ==
  LET a == NextQuote(t, i) IN
  IF a = 0 THEN <<>>
  ELSE LET b == NextQuote(t, a + 1) IN
       IF b = 0 THEN <<>>
       ELSE <<SubSeq(t, a + 1, b - 1)>> \o QuotedFrom(t, b + 1)

RECURSIVE Strip(_)
\* str.strip() for blanks
Strip(t) ==
  IF t = <<>> THEN t
  ELSE IF Head(t) = " " THEN Strip(Tail(t))
  ELSE IF t[Len(t)] = " " THEN Strip(SubSeq(t, 1, Len(t) - 1))
  ELSE t

_extract_keywords(description, action) ==
  LET text == Lower(description \o <<" ">> \o action)
      allq == QuotedFrom(text, 1)
      quoted0 == [k \in 1..Len(allq) |-> Strip(allq[k])]
      LongQ(q) == Len(q) > 2
      quoted == SelectSeq(quoted0, LongQ)
      KeepW(w) == Len(w) > 2 /\ w \notin stop_words
      words == SelectSeq(WordsFrom(text, 1, <<>>), KeepW)
      NotQ(w) == \A k \in 1..Len(quoted) : quoted[k] # w
  IN  Take(quoted \o SelectSeq(words, NotQ), 15)

-----------------------------------------------------------------------------
(* VideoTimeline.find_events_matching                                      *)

\* event_type_boosts.get(event.event_type, 0), in hundredths
event_type_boosts(event_type) ==
  IF event_type = "click" THEN 10
  ELSE IF event_type = "type" THEN 10
  ELSE IF event_type = "ui_change" THEN 5
  ELSE IF event_type = "assertion" THEN 15
  ELSE 0

\* f"{desc_lower} {text_lower} {ui_lower}"
CombinedText(event) ==
  Lower(event.description) \o <<" ">> \o Lower(Join(event.text_visible, <<" ">>))
     \o <<" ">> \o Lower(Join(event.ui_elements, <<" ">>))

\* matches: the keywords (with repetitions) that occur in the combined text
KeywordMatches(event, keywords) ==
  LET c == CombinedText(event)
  IN  Cardinality({k \in 1..Len(keywords) : Contains(c, Lower(keywords[k]))})

\* final_score, scaled by 2 * 100 * max(len(keywords), 1) so that it is an
\* integer: matches/len + 0.2 per long keyword in the description + type
\* boost + the event's confidence.
FinalScore(event, keywords) ==
  LET n == Max(Len(keywords), 1)
      d == Lower(event.description)
      boosts == Cardinality({k \in 1..Len(keywords) :
                               Len(keywords[k]) > 3 /\ Contains(d, Lower(keywords[k]))})
  IN  KeywordMatches(event, keywords) * 100
        + (20 * boosts + event_type_boosts(event.event_type) + event.confidence) * n

\* A variant of Scored whose relaxed mode keeps the events with exactly one
\* keyword match
ScoredSingleMatch(events, keywords, min_timestamp, require_multiple_matches) ==
  LET Keep(e) ==
        /\ ~(e.timestamp < min_timestamp)
        /\ LET m == KeywordMatches(e, keywords) IN
           IF require_multiple_matches THEN ~(m < 2) ELSE m = 1
  IN  SelectSeq(events, Keep)

\* A variant of Scored that does not skip the events before min_timestamp
ScoredWithoutFloor(events, keywords, min_timestamp, require_multiple_matches) ==
  LET Keep(e) ==
        LET m == KeywordMatches(e, keywords) IN
        IF require_multiple_matches THEN ~(m < 2) ELSE ~(m < 1)
  IN  SelectSeq(events, Keep)

\* the events that pass the temporal floor and the match requirement, in
\* timeline order
Scored(events, keywords, min_timestamp, require_multiple_matches) ==
  LET Keep(e) ==
        /\ ~(e.timestamp < min_timestamp)
        /\ LET m == KeywordMatches(e, keywords) IN
           IF require_multiple_matches THEN ~(m < 2) ELSE ~(m < 1)
  IN  SelectSeq(events, Keep)

RECURSIVE SortByScore(_, _)
\* list.sort(key=score, reverse=True): descending, equal scores keep their order
SortByScore(s, keywords) ==
  IF s = <<>> THEN <<>>
  ELSE LET rest == SortByScore(Tail(s), keywords)
           h == Head(s)
           Before(e) == FinalScore(e, keywords) > FinalScore(h, keywords)
           After(e) == ~Before(e)
       IN  SelectSeq(rest, Before) \o <<h>> \o SelectSeq(rest, After)

find_events_matching(events, keywords, min_timestamp, require_multiple_matches) ==
  SortByScore(Scored(events, keywords, min_timestamp, require_multiple_matches), keywords)

-----------------------------------------------------------------------------
(* ComprehensiveVisionAgent.verify_step_against_timeline                   *)

TxtFound == <<"F","o","u","n","d"," ">>

TxtBestAt ==
  <<" ","m","a","t","c","h","i","n","g"," ","e","v","e","n","t","s","."," ","B","e","s","t"," ","m","a","t","c","h"," ","a","t"," ">>

TxtWith == <<"s"," ","w","i","t","h"," ">>

TxtKwMatches ==
  <<" ","k","e","y","w","o","r","d"," ","m","a","t","c","h","e","s","."," ","E","v","i","d","e","n","c","e",":"," ">>

TxtSColon == <<"s",":"," ">>

TxtMatched == <<".",".","."," ","(","m","a","t","c","h","e","d",":"," ">>

TxtBar == <<" ","|"," ">>

TxtComma == <<","," ">>

TxtSearched ==
  <<"S","e","a","r","c","h","e","d"," ","f","o","r"," ","k","e","y","w","o","r","d","s",":"," ">>

TxtAfter == <<" ","a","f","t","e","r"," ","t","i","m","e","s","t","a","m","p"," ">>

TxtNoMatches == <<"s"," ","-"," ","n","o"," ","m","a","t","c","h","e","s">>

TxtNoEvents ==
  <<"N","o"," ","m","a","t","c","h","i","n","g"," ","e","v","e","n","t","s"," ","f","o","u","n","d"," ","i","n"," ","t","i","m","e","l","i","n","e">>

TxtNoEventsFound == <<"N","o"," ","e","v","e","n","t","s"," ","f","o","u","n","d">>

\* " | ".join of "[i] {t:.1f}s: {description[:100]}... (matched: k1, k2, k3)"
\* over the first three events
_build_detailed_evidence(events, keywords) ==
  IF events = <<>> THEN TxtNoEventsFound
  ELSE LET top == Take(events, 3)
           Part(i) ==
             LET e == top[i]
                 InDesc(kw) == Contains(Lower(e.description), Lower(kw))
                 matched_kw == SelectSeq(keywords, InDesc)
             IN  <<"[">> \o IntStr(i) \o <<"]"," ">> \o Fmt1(e.timestamp) \o TxtSColon
                   \o Take(e.description, 100) \o TxtMatched
                   \o Join(Take(matched_kw, 3), TxtComma) \o <<")">>
       IN  Join([i \in 1..Len(top) |-> Part(i)], TxtBar)

\* A variant of the confidence whose weak-match penalty has no floor
ConfidenceWithoutFloor(best_match, matched_keywords, n, prev_or_0, match_count) ==
  LET c0 == best_match.confidence
      c1 == IF matched_keywords * 10 >= 7 * n THEN Min(100, c0 + 15)
            ELSE IF matched_keywords * 10 >= 5 * n THEN Min(100, c0 + 10)
            ELSE IF matched_keywords * 10 >= 3 * n THEN Min(100, c0 + 5)
            ELSE c0
      c2 == IF prev_or_0 # 0 /\ best_match.timestamp >= prev_or_0
            THEN Min(100, c1 + 5) ELSE c1
  IN  IF match_count = 1 /\ matched_keywords * 10 < 4 * n
      THEN c2 - 20 ELSE c2

\* The confidence of a found evidence: the best match's own confidence, the
\* bonus for the keyword ratio matched_keywords / n (compared in tenths), the
\* temporal bonus (`if previous_step_timestamp and ...`: None and 0.0 are
\* both falsy) and the penalty of a single weak match.
EvidenceConfidence(best_match, matched_keywords, n, prev_or_0, match_count) ==
  LET c0 == best_match.confidence
      c1 == IF matched_keywords * 10 >= 7 * n THEN Min(100, c0 + 15)
            ELSE IF matched_keywords * 10 >= 5 * n THEN Min(100, c0 + 10)
            ELSE IF matched_keywords * 10 >= 3 * n THEN Min(100, c0 + 5)
            ELSE c0
      c2 == IF prev_or_0 # 0 /\ best_match.timestamp >= prev_or_0
            THEN Min(100, c1 + 5) ELSE c1
  IN  IF match_count = 1 /\ matched_keywords * 10 < 4 * n
      THEN Max(50, c2 - 20) ELSE c2

\* the StepEvidence returned when matching_events is not empty
FoundEvidence(matching_events, keywords, prev_or_0, best_match, matched_keywords) ==
  [found |-> TRUE,
   confidence |-> EvidenceConfidence(best_match, matched_keywords, Max(Len(keywords), 1),
                                     prev_or_0, Len(matching_events)),
   timestamp |-> <<best_match.timestamp>>,
   frame_number |-> <<best_match.frame_number>>,
   matching_events |-> matching_events,
   description |-> best_match.description,
   reasoning |-> TxtFound \o IntStr(Len(matching_events)) \o TxtBestAt
                   \o Fmt1(best_match.timestamp) \o TxtWith
                   \o IntStr(matched_keywords) \o <<"/">> \o IntStr(Len(keywords))
                   \o TxtKwMatches
                   \o _build_detailed_evidence(Take(matching_events, 3), keywords)]

\* the StepEvidence returned when matching_events is empty
NotFoundEvidence(keywords, min_timestamp) ==
  [found |-> FALSE, confidence |-> 0, timestamp |-> <<>>, frame_number |-> <<>>,
   matching_events |-> <<>>, description |-> TxtNoEvents,
   reasoning |-> TxtSearched \o Join(Take(keywords, 5), TxtComma) \o TxtAfter
                   \o Fmt1(min_timestamp) \o TxtNoMatches]

EvidenceOf(matching_events, keywords, prev_or_0, min_timestamp) ==
  IF matching_events = <<>> THEN NotFoundEvidence(keywords, min_timestamp)
  ELSE FoundEvidence(matching_events, keywords, prev_or_0, matching_events[1],
                     KeywordMatches(matching_events[1], keywords))

\* A variant of StrictThenRelaxed that searches in relaxed mode at once
AlwaysRelaxed(strict, events, keywords, min_timestamp) ==
  find_events_matching(events, keywords, min_timestamp, FALSE)

\* the strict result, or the relaxed one when the strict result is empty
StrictThenRelaxed(strict, events, keywords, min_timestamp) ==
  IF strict = <<>> THEN find_events_matching(events, keywords, min_timestamp, FALSE)
  ELSE strict

SearchTimeline(events, keywords, prev_or_0, min_timestamp) ==
  EvidenceOf(StrictThenRelaxed(find_events_matching(events, keywords, min_timestamp, TRUE),
                               events, keywords, min_timestamp),
             keywords, prev_or_0, min_timestamp)

\* A variant of the floor without the half second after the previous step
FloorWithoutGap(previous_step_timestamp) ==
  Max(0, IF previous_step_timestamp = <<>> THEN 0 ELSE previous_step_timestamp[1])

\* min_timestamp = max(0.0, (previous_step_timestamp or 0.0) + 0.5), in
\* tenths of a second; previous_step_timestamp is <<>> (None) or <<t>>
min_timestamp(previous_step_timestamp) ==
  Max(0, (IF previous_step_timestamp = <<>> THEN 0 ELSE previous_step_timestamp[1]) + 5)

\* ComprehensiveVisionAgent.verify_step_against_timeline
verify_step_against_timeline(step, timeline, previous_step_timestamp) ==
  LET prev_or_0 == IF previous_step_timestamp = <<>> THEN 0
                   ELSE previous_step_timestamp[1]
  IN  SearchTimeline(timeline.events, _extract_keywords(step.description, step.action),
                     prev_or_0, min_timestamp(previous_step_timestamp))

-----------------------------------------------------------------------------
(* Verdicts: VerificationResult and AgentDecision.                         *)
(* A StepStatus is "observed", "deviation" or "uncertain".  The metadata   *)
(* dict of a decision is read with .get, so an absent key is FALSE or "".  *)

\* A variant of _create_result_from_evidence that decides on evidence.found
\* instead of the confidence
ResultFromFound(step, evidence) ==
  [step |-> step,
   status |-> IF evidence.found THEN "observed" ELSE "deviation",
   confidence |-> evidence.confidence,
   video_timestamp |-> evidence.timestamp,
   agent_decisions |-> <<>>,
   notes |-> "Code-based verification (no LLM)"]

\* OrchestratorAgent._create_result_from_evidence (the OCR texts copied into
\* the result are left out: nothing downstream reads them)
_create_result_from_evidence(step, evidence) ==
  [step |-> step,
   status |-> IF evidence.confidence >= 85 THEN "observed"
              ELSE IF evidence.confidence >= 50 THEN "uncertain"
              ELSE "deviation",
   confidence |-> evidence.confidence,
   video_timestamp |-> evidence.timestamp,
   agent_decisions |-> <<>>,
   notes |-> "Code-based verification (no LLM)"]

\* A variant of _create_fallback_result that reports the failed call as a
\* deviation
FallbackAsDeviation(step, evidence, error_message) ==
  [step |-> step,
   status |-> "deviation",
   confidence |-> 0,
   video_timestamp |-> evidence.timestamp,
   agent_decisions |->
     << [decision |-> "DEVIATION", confidence |-> 0, fallback |-> TRUE,
         llm_verified |-> FALSE, batch_verified |-> FALSE,
         error |-> error_message] >>,
   notes |-> "Fallback result due to LLM error"]

\* VerificationAgent._create_fallback_result
_create_fallback_result(step, evidence, error_message) ==
  [step |-> step,
   status |-> "uncertain",
   confidence |-> 50,
   video_timestamp |-> evidence.timestamp,
   agent_decisions |->
     << [decision |-> "UNCERTAIN", confidence |-> 50, fallback |-> TRUE,
         llm_verified |-> FALSE, batch_verified |-> FALSE,
         error |-> error_message] >>,
   notes |-> "Fallback result due to LLM error"]

-----------------------------------------------------------------------------
(* The semantic collaborator's answer to one generate_llm_response call.   *)
(* kind is "raise" (the call raised msg), "empty" (blank text), "garbage"  *)
(* (text that json.loads rejects after cleaning), "object" (a JSON object, *)
(* obj) or "array" (a JSON array, elems).  A JSON value that the parsers   *)
(* read is                                                                 *)
(*   is_object   FALSE for an array element that is no JSON object         *)
(*   has_status  the key "status" is present                               *)
(*   status_str  its value is a string (status holds it), else not         *)
(*   conf_kind   "absent", "num" (conf holds hundredths) or "bad" (a value *)
(*               float() rejects)                                          *)

StatusObserved == <<"o","b","s","e","r","v","e","d">>

StatusDeviation == <<"d","e","v","i","a","t","i","o","n">>

StatusUncertain == <<"u","n","c","e","r","t","a","i","n">>

\* A variant of ReadDecision that compares the status as it is spelled
ReadDecisionCaseSensitive(data) ==
  IF ~data.is_object THEN [ok |-> FALSE, status |-> "uncertain", confidence |-> 0]
  ELSE IF data.has_status /\ ~data.status_str
       THEN [ok |-> FALSE, status |-> "uncertain", confidence |-> 0]
  ELSE IF data.conf_kind = "bad"
       THEN [ok |-> FALSE, status |-> "uncertain", confidence |-> 0]
  ELSE
    LET status_str == IF data.has_status THEN data.status ELSE StatusUncertain
        status == IF status_str = StatusObserved THEN "observed"
                  ELSE IF status_str = StatusDeviation THEN "deviation"
                  ELSE "uncertain"
        c == IF data.conf_kind = "absent" THEN 50 ELSE data.conf
    IN  [ok |-> TRUE, status |-> status, confidence |-> Max(0, Min(100, c))]

\* The body shared by _parse_verification_response and the loop body of
\* _parse_batch_verification_response: the fields read from one element.
\* Returns [ok |-> FALSE] when the code raises on the element.
ReadDecision(data) ==
  IF ~data.is_object THEN [ok |-> FALSE, status |-> "uncertain", confidence |-> 0]
  ELSE IF data.has_status /\ ~data.status_str
       THEN [ok |-> FALSE, status |-> "uncertain", confidence |-> 0]
  ELSE IF data.conf_kind = "bad"
       THEN [ok |-> FALSE, status |-> "uncertain", confidence |-> 0]
  ELSE
    LET status_str == IF data.has_status THEN Lower(data.status) ELSE StatusUncertain
        status == IF status_str = StatusObserved THEN "observed"
                  ELSE IF status_str = StatusDeviation THEN "deviation"
                  ELSE "uncertain"
        c == IF data.conf_kind = "absent" THEN 50 ELSE data.conf
    IN  [ok |-> TRUE, status |-> status, confidence |-> Max(0, Min(100, c))]

\* status.value.upper()
UpperStatus(status) ==
  IF status = "observed" THEN "OBSERVED"
  ELSE IF status = "deviation" THEN "DEVIATION"
  ELSE "UNCERTAIN"

\* the VerificationResult built from a decision that was read
LLMResult(step, evidence, d, batch) ==
  [step |-> step,
   status |-> d.status,
   confidence |-> d.confidence,
   video_timestamp |-> evidence.timestamp,
   agent_decisions |->
     << [decision |-> UpperStatus(d.status), confidence |-> d.confidence,
         fallback |-> FALSE, llm_verified |-> TRUE, batch_verified |-> batch,
         error |-> ""] >>,
   notes |-> IF batch THEN "Batch LLM-verified" ELSE "LLM-verified"]

\* VerificationAgent._parse_verification_response: every exception of the
\* try block ends in the fallback result.
_parse_verification_response(response, step, evidence) ==
  IF response.kind = "empty"
  THEN _create_fallback_result(step, evidence, "Parse error: Empty response from LLM")
  ELSE IF response.kind = "garbage"
  THEN _create_fallback_result(step, evidence, "Parse error: invalid JSON")
  ELSE IF response.kind = "array"
  THEN _create_fallback_result(step, evidence, "Parse error: 'list' object has no attribute 'get'")
  ELSE LET d == ReadDecision(response.obj) IN
       IF d.ok THEN LLMResult(step, evidence, d, FALSE)
       ELSE _create_fallback_result(step, evidence, "Parse error: bad field")

\* VerificationAgent.verify_step_with_timeline_evidence
verify_step_with_timeline_evidence(step, evidence, response) ==
  IF response.kind = "raise"
  THEN _create_fallback_result(step, evidence, response.msg)
  ELSE _parse_verification_response(response, step, evidence)

\* the fallback list of the two except blocks of batch verification
AllFallback(steps_to_verify, error_message) ==
  [i \in 1..Len(steps_to_verify) |->
     _create_fallback_result(steps_to_verify[i][1], steps_to_verify[i][2], error_message)]

\* A variant of _parse_batch_verification_response that gives a step the
\* element naming its step_number, and the fallback when none names it
ParseBatchByStepNumber(response, steps_to_verify) ==
  IF response.kind # "array"
  THEN AllFallback(steps_to_verify, "Batch parse error")
  ELSE
    LET data_list == response.elems
        used == 1..Min(Len(steps_to_verify), Len(data_list))
        Names(n, k) == data_list[k].is_object /\ data_list[k].step_number = n
    IN  IF \E i \in used : ~ReadDecision(data_list[i]).ok
        THEN AllFallback(steps_to_verify, "Batch parse error: bad element")
        ELSE [i \in 1..Len(steps_to_verify) |->
                IF \E k \in used : Names(steps_to_verify[i][1].step_number, k)
                THEN LLMResult(steps_to_verify[i][1], steps_to_verify[i][2],
                               ReadDecision(data_list[
                                 CHOOSE k \in used :
                                   Names(steps_to_verify[i][1].step_number, k)]), TRUE)
                ELSE _create_fallback_result(steps_to_verify[i][1], steps_to_verify[i][2],
                                             "Missing in batch response")]

\* A variant of _parse_batch_verification_response without the else branch
\* of its loop: a step beyond the end of the array gets no result
ParseBatchWithoutMissing(response, steps_to_verify) ==
  IF response.kind \in {"empty", "garbage"} \/ response.kind # "array"
  THEN AllFallback(steps_to_verify, "Batch parse error")
  ELSE
    LET data_list == response.elems
        used == 1..Min(Len(steps_to_verify), Len(data_list))
    IN  IF \E i \in used : ~ReadDecision(data_list[i]).ok
        THEN AllFallback(steps_to_verify, "Batch parse error: bad element")
        ELSE [i \in used |->
                LLMResult(steps_to_verify[i][1], steps_to_verify[i][2],
                          ReadDecision(data_list[i]), TRUE)]

\* VerificationAgent._parse_batch_verification_response: elements are matched
\* to the steps by position; an exception on any element used discards all.
_parse_batch_verification_response(response, steps_to_verify) ==
  IF response.kind = "empty"
  THEN AllFallback(steps_to_verify, "Batch parse error: Empty response from LLM")
  ELSE IF response.kind = "garbage"
  THEN AllFallback(steps_to_verify, "Batch parse error: invalid JSON")
  ELSE IF response.kind # "array"
  THEN AllFallback(steps_to_verify, "Batch parse error: Expected JSON array")
  ELSE
    LET data_list == response.elems
        used == 1..Min(Len(steps_to_verify), Len(data_list))
    IN  IF \E i \in used : ~ReadDecision(data_list[i]).ok
        THEN AllFallback(steps_to_verify, "Batch parse error: bad element")
        ELSE [i \in 1..Len(steps_to_verify) |->
                IF i <= Len(data_list)
                THEN LLMResult(steps_to_verify[i][1], steps_to_verify[i][2],
                               ReadDecision(data_list[i]), TRUE)
                ELSE _create_fallback_result(steps_to_verify[i][1], steps_to_verify[i][2],
                                             "Missing in batch response")]

\* VerificationAgent.batch_verify_steps
batch_verify_steps(steps_to_verify, response) ==
  IF steps_to_verify = <<>> THEN <<>>
  ELSE IF response.kind = "raise" THEN AllFallback(steps_to_verify, response.msg)
  ELSE _parse_batch_verification_response(response, steps_to_verify)

-----------------------------------------------------------------------------
(* OrchestratorAgent._smart_verify_steps: evidence, triage, merge.         *)

\* A variant of the update of previous_timestamp that follows every step,
\* found or not
PreviousFromLast(previous_timestamp, evidence) == evidence.timestamp

\* `if evidence.found and evidence.timestamp is not None:
\*      previous_timestamp = evidence.timestamp`
NextPrevious(previous_timestamp, evidence) ==
  IF evidence.found /\ evidence.timestamp # <<>>
  THEN evidence.timestamp ELSE previous_timestamp

RECURSIVE GatherFrom(_, _, _, _)
RECURSIVE GatherNext(_, _, _, _, _)
\* Step 1: the loop over the steps in plan order
GatherFrom(steps, timeline, i, previous_timestamp) ==
  IF i > Len(steps) THEN <<>>
  ELSE GatherNext(steps, timeline, i, previous_timestamp,
                  verify_step_against_timeline(steps[i], timeline, previous_timestamp))

\* the rest of one turn of the loop: previous_timestamp moves only when the
\* evidence was found with a timestamp
GatherNext(steps, timeline, i, previous_timestamp, evidence) ==
  << <<steps[i], evidence>> >>
    \o GatherFrom(steps, timeline, i + 1, NextPrevious(previous_timestamp, evidence))

GatherEvidence(steps, timeline) == GatherFrom(steps, timeline, 1, <<>>)

\* Step 2: the pairs triage flags, in plan order
NeedsLLM(initial_evidence) ==
  LET F(p) == needs_llm_verification(p[1], p[2]) IN SelectSeq(initial_evidence, F)

\* Step 2: the pairs triage does not flag, in plan order
CodeBased(initial_evidence) ==
  LET F(p) == ~needs_llm_verification(p[1], p[2]) IN SelectSeq(initial_evidence, F)

\* Step 3
CodeResults(code_based) ==
  [i \in 1..Len(code_based) |->
     _create_result_from_evidence(code_based[i][1], code_based[i][2])]

\* A variant of the threshold: `len(needs_llm) < 4`
LowerThreshold == 5 - 1

\* `len(needs_llm) < 5` selects the per-step mode
BatchThreshold == 5

RECURSIVE SortResults(_)
\* Step 5: list.sort(key=step_number): ascending, equal keys keep their order
SortResults(rs) ==
  IF rs = <<>> THEN <<>>
  ELSE LET rest == SortResults(SubSeq(rs, 1, Len(rs) - 1))
           l == rs[Len(rs)]
           NotAfter(r) == r.step.step_number <= l.step.step_number
           After(r) == ~NotAfter(r)
       IN  SelectSeq(rest, NotAfter) \o <<l>> \o SelectSeq(rest, After)

\* A variant of step 5 without the sort
MergeUnsorted(code, llm) == code \o llm

\* Step 5: all_results = code_results + llm_results, sorted by step number
MergeResults(code, llm) == SortResults(code \o llm)

-----------------------------------------------------------------------------
(* OrchestratorAgent._generate_report and DeviationReport.__init__         *)

CountStatus(rs, st) == Cardinality({i \in 1..Len(rs) : rs[i].status = st})

\* A variant of DeviationReport.__init__ that divides without the test
\* total_steps > 0
DeviationReportUnguarded(total_steps, observed_steps, deviated_steps, uncertain_steps, overall_status, verification_results) ==
  [total_steps |-> total_steps,
   observed_steps |-> observed_steps,
   deviated_steps |-> deviated_steps,
   uncertain_steps |-> uncertain_steps,
   pass_rate |-> <<observed_steps * 100, total_steps>>,
   overall_status |-> overall_status,
   verification_results |-> verification_results]

\* DeviationReport.__init__: pass_rate stays 0.0 unless total_steps > 0; the
\* quotient observed / total * 100 is kept as the fraction <<num, den>>.
DeviationReport(total_steps, observed_steps, deviated_steps, uncertain_steps, overall_status, verification_results) ==
  [total_steps |-> total_steps,
   observed_steps |-> observed_steps,
   deviated_steps |-> deviated_steps,
   uncertain_steps |-> uncertain_steps,
   pass_rate |-> IF total_steps > 0 THEN <<observed_steps * 100, total_steps>>
                 ELSE <<0, 1>>,
   overall_status |-> overall_status,
   verification_results |-> verification_results]

\* A variant of _generate_report that tests the uncertain count before the
\* deviated count
ReportUncertainFirst(verification_results) ==
  LET observed == CountStatus(verification_results, "observed")
      deviated == CountStatus(verification_results, "deviation")
      uncertain == CountStatus(verification_results, "uncertain")
      overall_status == IF deviated = 0 /\ uncertain = 0 THEN "PASSED"
                        ELSE IF uncertain > 0 THEN "UNCERTAIN"
                        ELSE "FAILED"
  IN  DeviationReport(Len(verification_results), observed, deviated, uncertain,
                      overall_status, verification_results)

\* OrchestratorAgent._generate_report: the counts and the overall status
_generate_report(verification_results) ==
  LET observed == CountStatus(verification_results, "observed")
      deviated == CountStatus(verification_results, "deviation")
      uncertain == CountStatus(verification_results, "uncertain")
      overall_status == IF deviated = 0 /\ uncertain = 0 THEN "PASSED"
                        ELSE IF deviated > 0 THEN "FAILED"
                        ELSE "UNCERTAIN"
  IN  DeviationReport(Len(verification_results), observed, deviated, uncertain,
                      overall_status, verification_results)

-----------------------------------------------------------------------------
(* ComprehensiveVisionAgent.extract_key_frames and                         *)
(* OrchestratorAgent._extract_frames                                       *)

\* step = len(all_frames) / (max_key_frames - 1) is a double.  For the
\* divisor 14 (max_key_frames is 15 by default and at the only call) and
\* n >= 14: n / 14 lies in [2^e, 2^(e+1)), its unit in the last place is
\* 2^(e - 52), and the binary expansion of a multiple of 1/7 has period 3,
\* so the part of n / 14 below the last place is r/7 of a unit with r as
\* below.  StepError is the rounding error of step in sevenths of a unit:
\* -r when it rounds down (r <= 3), 7 - r when it rounds up.
StepExponent(n) == CHOOSE e \in 0..24 : 2^e * 14 <= n /\ n < 2^(e + 1) * 14

StepError(n) ==
  LET shift == 52 - StepExponent(n)
      r == ((n % 7) * <<1, 2, 4>>[((shift - 1) % 3) + 1]) % 7
  IN  IF r <= 3 THEN 0 - r ELSE 7 - r

\* int(i * step), the product rounded to a double and truncated.  When
\* i * n is no multiple of 14 the product is at least 1/14 from an integer
\* and the result is floor(i * n / 14).  When it is a multiple, i * n / 14
\* = m, the product is m + i * StepError / 7 units of step: at or above m
\* it truncates to m; below m it rounds to m or to the double before m,
\* whichever is nearer (m on a tie: its last bit is 0), and the doubles
\* below m are 2^(b - 52) apart with b as below.
KeyIndex(i, n, max_key_frames) ==
  LET floor == (i * n) \div (max_key_frames - 1)
  IN  IF (i * n) % (max_key_frames - 1) # 0 \/ max_key_frames # 15 \/ n < 14
      THEN floor
      ELSE LET b == CHOOSE e \in 0..24 : 2^e < floor /\ floor <= 2^(e + 1)
           IN  IF /\ StepError(n) < 0
                  /\ 2 * i * (0 - StepError(n)) * 2^StepExponent(n) > 7 * 2^b
               THEN floor - 1
               ELSE floor

\* A variant of extract_key_frames that does not add the last frame
KeyFramesWithoutLast(all_frames, max_key_frames) ==
  IF Len(all_frames) <= max_key_frames THEN all_frames
  ELSE LET n == Len(all_frames)
           Mid(i) == KeyIndex(i, n, max_key_frames) < n
           mids == SelectSeq([i \in 1..(max_key_frames - 2) |-> i], Mid)
       IN  <<all_frames[1]>>
             \o [k \in 1..Len(mids) |-> all_frames[KeyIndex(mids[k], n, max_key_frames) + 1]]

extract_key_frames(all_frames, max_key_frames) ==
  IF Len(all_frames) <= max_key_frames THEN all_frames
  ELSE LET n == Len(all_frames)
           Mid(i) == KeyIndex(i, n, max_key_frames) < n
           mids == SelectSeq([i \in 1..(max_key_frames - 2) |-> i], Mid)
           key == <<all_frames[1]>>
                    \o [k \in 1..Len(mids) |-> all_frames[KeyIndex(mids[k], n, max_key_frames) + 1]]
       IN  IF \E k \in 1..Len(key) : key[k] = all_frames[n]
           THEN key ELSE Append(key, all_frames[n])

\* _extract_frames with fps taken as 1: frame k of the video is saved when
\* k % frame_interval = 0, until max_frames are saved.  The result is
\* [raised, frames]; the modulo raises ZeroDivisionError when
\* frame_interval is 0 and a frame was read.
_extract_frames(video_frames, strategy) ==
  IF strategy.max_frames > 0 /\ video_frames > 0 /\ strategy.frame_interval = 0
  THEN [raised |-> TRUE, frames |-> <<>>]
  ELSE LET Saved(k) == (k - 1) % strategy.frame_interval = 0
           picks == IF strategy.max_frames > 0
                    THEN SelectSeq([k \in 1..video_frames |-> k], Saved) ELSE <<>>
           kept == Take(picks, strategy.max_frames)
       IN  [raised |-> FALSE,
            frames |-> [j \in 1..Len(kept) |->
                          [frame_number |-> j - 1, timestamp |-> (kept[j] - 1) * 10]]]

-----------------------------------------------------------------------------
(* Inputs of a run.                                                        *)

\* Bounds of the model: the longest plan, the largest step number, the
\* longest plan listed in an arbitrary order, and the length of the video of
\* a run that has frames.
MaxSteps == 5

MaxStepNo == 5

MaxShuffled == 3

VideoFrames == 3

TxtOpenCart == <<"o","p","e","n"," ","c","a","r","t">>

TxtNavigate == <<"n","a","v","i","g","a","t","e">>

TxtAddItem == <<"a","d","d"," ","i","t","e","m">>

TxtClickAdd == <<"c","l","i","c","k"," ","a","d","d">>

TxtViewTotal == <<"v","i","e","w"," ","t","o","t","a","l">>

TxtScroll == <<"s","c","r","o","l","l">>

TxtTotalShouldBe == <<"t","o","t","a","l"," ","s","h","o","u","l","d"," ","b","e"," ","r","i","g","h","t">>

TxtVerify == <<"v","e","r","i","f","y">>

TxtPickSize == <<"p","i","c","k"," ","s","i","z","e">>

TxtSelectSize == <<"S","e","l","e","c","t"," ","s","i","z","e">>

\* The texts of the planned steps, by step number modulo 5: a plain step, a
\* click, another plain step, an assertion, a selection.
StepTexts ==
  << [description |-> TxtOpenCart, action |-> TxtNavigate],
     [description |-> TxtAddItem, action |-> TxtClickAdd],
     [description |-> TxtViewTotal, action |-> TxtScroll],
     [description |-> TxtTotalShouldBe, action |-> TxtVerify],
     [description |-> TxtPickSize, action |-> TxtSelectSize] >>

\* TestStep(step_number = n, ...)
TestStep(n) ==
  [step_number |-> n,
   description |-> StepTexts[((n - 1) % Len(StepTexts)) + 1].description,
   action |-> StepTexts[((n - 1) % Len(StepTexts)) + 1].action]

\* the lists of n distinct step numbers
Arrangements(n) ==
  { g \in [1..n -> 1..MaxStepNo] : \A i, j \in 1..n : i # j => g[i] # g[j] }

\* the numbers ascend or descend along the list
Monotone(g) ==
  \/ \A i, j \in DOMAIN g : i < j => g[i] < g[j]
  \/ \A i, j \in DOMAIN g : i < j => g[i] > g[j]

\* The plans: at most MaxSteps steps with distinct step numbers in
\* 1..MaxStepNo; the plans of at most MaxShuffled steps list them in any
\* order, the longer ones in ascending or in descending order.
Plans ==
  UNION { { [i \in 1..n |-> TestStep(g[i])] :
              g \in { h \in Arrangements(n) : n <= MaxShuffled \/ Monotone(h) } } :
          n \in 0..MaxSteps }

TxtCartPageOpen == <<"c","a","r","t"," ","p","a","g","e"," ","o","p","e","n">>

TxtTotalShown == <<"t","o","t","a","l"," ","i","s"," ","s","h","o","w","n">>

TxtCartNotAvailable ==
  <<"C","a","r","t"," ","i","s"," ","N","O","T"," ","a","v","a","i","l","a","b","l","e">>

\* TimelineEvent(...)
TimelineEvent(timestamp, frame_number, event_type, description, confidence) ==
  [timestamp |-> timestamp, frame_number |-> frame_number, event_type |-> event_type,
   description |-> description, ui_elements |-> <<>>, text_visible |-> <<>>,
   confidence |-> confidence]

EvOpen == TimelineEvent(10, 1, "navigation", TxtCartPageOpen, 80)

EvTotal == TimelineEvent(40, 2, "ui_change", TxtTotalShown, 60)

EvNotAvailable == TimelineEvent(30, 2, "click", TxtCartNotAvailable, 90)

EvEarly == TimelineEvent(2, 0, "navigation", TxtCartPageOpen, 99)

\* What the timeline call of the vision agent can get back: the call raises,
\* the text cannot be recovered by any parsing strategy, or a list of events
\* (not necessarily in timestamp order).
VisionResponses ==
  { [kind |-> "raise", events |-> <<>>],
    [kind |-> "unparseable", events |-> <<>>],
    [kind |-> "events", events |-> <<EvEarly, EvOpen, EvTotal>>],
    [kind |-> "events", events |-> <<EvNotAvailable, EvTotal>>],
    [kind |-> "events", events |-> <<EvTotal, EvOpen>>] }

\* One JSON object of an adjudication answer
JsonDecision(status, conf) ==
  [is_object |-> TRUE, has_status |-> TRUE, status_str |-> TRUE, status |-> status,
   conf_kind |-> "num", conf |-> conf]

\* an array element that is not an object
JsonScalar ==
  [is_object |-> FALSE, has_status |-> FALSE, status_str |-> FALSE, status |-> <<>>,
   conf_kind |-> "absent", conf |-> 0]

LLMResponse(kind, msg, obj, elems) ==
  [kind |-> kind, msg |-> msg, obj |-> obj, elems |-> elems]

\* What one per-step adjudication call can get back
SingleResponses ==
  { LLMResponse("raise", "LLM unavailable", JsonScalar, <<>>),
    LLMResponse("empty", "", JsonScalar, <<>>),
    LLMResponse("garbage", "", JsonScalar, <<>>),
    LLMResponse("object", "", JsonDecision(StatusObserved, 90), <<>>),
    LLMResponse("object", "", JsonDecision(StatusDeviation, 80), <<>>) }

\* What the batched adjudication call for k steps can get back: the
\* failures, an object instead of an array, and arrays of k - 1, k and k + 1
\* elements, uniform or with alternating statuses, or with one element that
\* is not an object.
BatchResponses(k) ==
  { LLMResponse("raise", "LLM unavailable", JsonScalar, <<>>),
    LLMResponse("empty", "", JsonScalar, <<>>),
    LLMResponse("garbage", "", JsonScalar, <<>>),
    LLMResponse("object", "", JsonDecision(StatusObserved, 90), <<>>) }
  \cup { LLMResponse("array", "", JsonScalar,
                     [i \in 1..n |-> IF i % 2 = 1 THEN JsonDecision(a, 90)
                                     ELSE JsonDecision(b, 70)]) :
           n \in (k - 1)..(k + 1), a \in {StatusObserved, StatusDeviation},
           b \in {StatusObserved, StatusUncertain} }
  \cup { LLMResponse("array", "", JsonScalar,
                     [i \in 1..k |-> IF i = j THEN JsonScalar
                                     ELSE JsonDecision(StatusObserved, 90)]) :
           j \in {1, k} }

\* The strategies planning can return (from the LLM or the defaults)
Strategies == { [frame_interval |-> 0, max_frames |-> 2],
                [frame_interval |-> 2, max_frames |-> 2] }

-----------------------------------------------------------------------------
(* Progress records.  A progress value is the exact fraction <<num, den>>, *)
(* den > 0; the sink is the list of the TaskProgress records delivered to  *)
(* the progress callback of the run, oldest first.                         *)

Pct(n) == <<n, 100>>

\* a <= b for fractions
Leq(a, b) == a[1] * b[2] <= b[1] * a[2]

\* max(0.0, min(progress, 1.0))
Clamp(progress) ==
  IF progress[1] > progress[2] THEN <<1, 1>>
  ELSE IF progress[1] < 0 THEN <<0, 1>>
  ELSE progress

\* OrchestratorAgent.emit_progress with the run's callback set: the record is
\* delivered with the clamped value; error is "" for None.
emit_progress(records, status, progress, phase, error) ==
  Append(records, [status |-> status, progress |-> Clamp(progress),
                   phase |-> phase, error |-> error])

\* A variant of the except block that passes no error text to emit_progress
ExceptBlockWithoutText(records, progress, e) ==
  emit_progress(records, "failed", progress, "error", "")

\* The except block of execute_verification: the FAILED record with the
\* progress reached and str(e) as its error
ExceptBlock(records, progress, e) ==
  emit_progress(records, "failed", progress, "error", e)

\* 0.60 + (0.35 * step_num / total_steps)
VerificationProgress(step_num, total_steps) ==
  <<60 * total_steps + 35 * step_num, 100 * total_steps>>

MsgCreating == <<"C","r","e","a","t","i","n","g"," ","a","n","a","l","y","s","i","s"," ","p","r","o","m","p","t",".",".",".">>

MsgPreparing == <<"P","r","e","p","a","r","i","n","g"," ","f","r","a","m","e","s"," ","f","o","r"," ","A","I"," ","a","n","a","l","y","s","i","s",".",".",".">>

MsgAnalyzingA == <<"A","n","a","l","y","z","i","n","g"," ">>

MsgAnalyzingB == <<" ","v","i","d","e","o"," ","f","r","a","m","e","s"," ","w","i","t","h"," ","A","I",".",".",".">>

MsgParsing == <<"P","a","r","s","i","n","g"," ","A","I"," ","r","e","s","p","o","n","s","e"," ","i","n","t","o"," ","t","i","m","e","l","i","n","e",".",".",".">>

MsgComplete == <<"T","i","m","e","l","i","n","e"," ","a","n","a","l","y","s","i","s"," ","c","o","m","p","l","e","t","e">>

\* vision_progress_callback: the value vision_progress_state["current"] has
\* after the if-chain on the message (`in` is case-sensitive; only the last
\* test lowers the message)
VisionCurrent(current, message) ==
  IF Contains(message, <<"C","r","e","a","t","i","n","g">>) \/ Contains(message, <<"p","r","o","m","p","t">>)
  THEN Pct(35)
  ELSE IF Contains(message, <<"P","r","e","p","a","r","i","n","g">>) THEN Pct(38)
  ELSE IF Contains(message, <<"A","n","a","l","y","z","i","n","g">>) \/ Contains(message, <<"A","I">>)
  THEN Pct(40)
  ELSE IF Contains(message, <<"P","a","r","s","i","n","g">>) \/ Contains(message, <<"t","i","m","e","l","i","n","e">>)
  THEN Pct(58)
  ELSE IF Contains(Lower(message), <<"c","o","m","p","l","e","t","e">>) THEN Pct(60)
  ELSE current

\* vision_progress_callback: whether the message takes the branch that sets
\* vision_progress_state["ai_start"]
VisionSetsAiStart(message) ==
  /\ ~(Contains(message, <<"C","r","e","a","t","i","n","g">>) \/ Contains(message, <<"p","r","o","m","p","t">>))
  /\ ~Contains(message, <<"P","r","e","p","a","r","i","n","g">>)
  /\ Contains(message, <<"A","n","a","l","y","z","i","n","g">>) \/ Contains(message, <<"A","I">>)

RECURSIVE VisionCallbacks(_, _, _)
\* vision_progress_callback applied to the messages in turn.  st is
\* [state, records]: vision_progress_state and the sink; current_progress of
\* the run follows state.current.
VisionCallbacks(st, messages, i) ==
  IF i > Len(messages) THEN st
  ELSE LET current == VisionCurrent(st.state.current, messages[i])
           state == [current |-> current,
                     ai_start |-> st.state.ai_start \/ VisionSetsAiStart(messages[i])]
       IN  VisionCallbacks([state |-> state,
                            records |-> emit_progress(st.records, "processing", current,
                                                      "vision", "")],
                           messages, i + 1)

\* A variant of _create_empty_timeline that keeps a placeholder event
TimelineWithPlaceholder ==
  [events |-> << TimelineEvent(0, 0, "error", <<>>, 0) >>,
   narrative |-> "Error: Failed to analyze video"]

\* ComprehensiveVisionAgent._create_empty_timeline
_create_empty_timeline == [events |-> <<>>, narrative |-> "Error: Failed to analyze video"]

\* ComprehensiveVisionAgent._parse_timeline_response: the events in the order
\* of the response; the empty timeline when no parsing strategy recovers it.
_parse_timeline_response(response) ==
  IF response.kind = "unparseable" THEN _create_empty_timeline
  ELSE [events |-> response.events, narrative |-> ""]

\* ComprehensiveVisionAgent.analyze_video_comprehensive: the timeline it
\* returns and the messages it passes to progress_callback, in order.
analyze_video_comprehensive(frames, response) ==
  IF frames = <<>>
  THEN [timeline |-> _create_empty_timeline, messages |-> <<>>]
  ELSE LET before == << MsgCreating, MsgPreparing,
                        MsgAnalyzingA \o IntStr(Len(frames)) \o MsgAnalyzingB >>
       IN  IF response.kind = "raise"
           THEN [timeline |-> _create_empty_timeline, messages |-> before]
           ELSE [timeline |-> _parse_timeline_response(response),
                 messages |-> before \o <<MsgParsing, MsgComplete>>]

-----------------------------------------------------------------------------
(* One run of OrchestratorAgent.execute_verification.                      *)
(*                                                                         *)
(* pc is the position of the coroutine.  The event loop is the FIFO queue  *)
(* `ready` of the tasks that can run ("vision": the task created for the   *)
(* timeline call, "main": the run itself) and the timer of the run's       *)
(* asyncio.sleep.  analyze_video_comprehensive contains no await and calls *)
(* the collaborator synchronously, so once the loop starts the vision task *)
(* it runs to its end before anything else.                                *)

VARIABLES
  pc,                    \* position of execute_verification
  plan,                  \* planning_log.steps
  strategy,              \* <<>> or <<the VerificationStrategy>>
  all_frames,            \* frames extracted from the video
  key_frames,            \* frames given to OCR and to the vision agent
  ready,                 \* event loop: tasks ready to run, in order
  timer,                 \* event loop: the run's sleep has not fired yet
  vision_task,           \* [done, result, response, seconds]: response is
                         \* what the semantic collaborator did on the
                         \* timeline call and seconds how long it took
  vision_progress_state, \* [current, ai_start]
  current_progress,      \* the nonlocal current_progress
  sink,                  \* records delivered to progress_callback
  timeline,              \* <<>> or <<the VideoTimeline>>
  initial_evidence,      \* _smart_verify_steps: (step, evidence) pairs
  needs_llm,             \* _smart_verify_steps: flagged pairs
  code_results,          \* _smart_verify_steps: deterministic verdicts
  llm_results,           \* _smart_verify_steps: semantic verdicts
  llm_calls,             \* adjudication calls made and how each ended, oldest first
  report,                \* <<>> or <<the DeviationReport returned>>
  error,                 \* "" or the text of the exception a phase raised
  call,                  \* the operation and arguments of a direct call
  ret,                   \* and what it returned
  orchestrator,          \* the attributes of the OrchestratorAgent that runs share
  runs                   \* the runs that interleave on it, by run number

vars == << pc, plan, strategy, all_frames, key_frames, ready, timer, vision_task,
           vision_progress_state, current_progress, sink, timeline,
           initial_evidence, needs_llm, code_results, llm_results, llm_calls,
           report, error, call, ret, orchestrator, runs >>

\* the locals of the vision phase
visionVars == << ready, timer, vision_task, vision_progress_state >>

\* the locals of _smart_verify_steps
verifyVars == << initial_evidence, needs_llm, code_results, llm_results, llm_calls >>

\* the state of a direct call
unitVars == << call, ret, orchestrator, runs >>

NoTask == [done |-> FALSE, result |-> <<>>, response |-> "", seconds |-> 0]

\* OrchestratorAgent.__init__: no progress callback (0 is None), and the
\* llm_calls counter of its ComprehensiveVisionAgent at 0
OrchestratorInit == [progress_callback |-> 0, vision_llm_calls |-> 0]

\* The state before execute_verification is entered
Idle ==
  /\ strategy = <<>>
  /\ all_frames = <<>>
  /\ key_frames = <<>>
  /\ ready = <<>>
  /\ timer = FALSE
  /\ vision_task = NoTask
  /\ vision_progress_state = [current |-> Pct(0), ai_start |-> FALSE]
  /\ current_progress = Pct(0)
  /\ sink = <<>>
  /\ timeline = <<>>
  /\ initial_evidence = <<>>
  /\ needs_llm = <<>>
  /\ code_results = <<>>
  /\ llm_results = <<>>
  /\ llm_calls = <<>>
  /\ report = <<>>
  /\ error = ""

Init ==
  /\ pc = "start"
  /\ plan \in Plans
  /\ Idle
  /\ call = <<>>
  /\ ret = <<>>
  /\ orchestrator = OrchestratorInit
  /\ runs = <<>>

\* Phase 1: planning.  create_strategy absorbs every failure of its call and
\* returns the collaborator's strategy or the default one.
Planning ==
  /\ pc = "start"
  /\ current_progress' = Pct(5)
  /\ sink' = emit_progress(sink, "processing", Pct(5), "planning", "")
  /\ \E st \in Strategies : strategy' = <<st>>
  /\ pc' = "extraction"
  /\ UNCHANGED << plan, all_frames, key_frames, timeline, report, error >>
  /\ UNCHANGED << visionVars, verifyVars, unitVars >>

\* Phase 2: frame extraction, and the except block of execute_verification
\* when _extract_frames raises: a FAILED record with the progress reached and
\* the text of the exception, then the exception is re-raised.
Extraction ==
  /\ pc = "extraction"
  /\ \E video_frames \in {0, VideoFrames} :
       LET r == _extract_frames(video_frames, strategy[1])
           emitted == emit_progress(sink, "processing", Pct(15), "extraction", "")
           e == "integer division or modulo by zero"
       IN  /\ current_progress' = Pct(15)
           /\ IF r.raised
              THEN /\ sink' = ExceptBlock(emitted, Pct(15), e)
                   /\ error' = e
                   /\ pc' = "raised"
                   /\ UNCHANGED all_frames
              ELSE /\ sink' = emitted
                   /\ all_frames' = r.frames
                   /\ pc' = "key_frames"
                   /\ UNCHANGED error
  /\ UNCHANGED << plan, strategy, key_frames, timeline, report >>
  /\ UNCHANGED << visionVars, verifyVars, unitVars >>

\* max_key_frames=15 of the call in phase 3
MaxKeyFrames == 15

\* Phase 3: key frame selection
KeyFrames ==
  /\ pc = "key_frames"
  /\ current_progress' = Pct(20)
  /\ sink' = emit_progress(sink, "processing", Pct(20), "key_frames", "")
  /\ key_frames' = extract_key_frames(all_frames, MaxKeyFrames)
  /\ pc' = "ocr"
  /\ UNCHANGED << plan, strategy, all_frames, timeline, report, error >>
  /\ UNCHANGED << visionVars, verifyVars, unitVars >>

\* A variant of phase 4 that is entered without a record
OCRWithoutRecord ==
  /\ pc = "ocr"
  /\ current_progress' = Pct(30)
  /\ pc' = "vision"
  /\ UNCHANGED << plan, strategy, all_frames, key_frames, timeline, report, error, sink >>
  /\ UNCHANGED << visionVars, verifyVars, unitVars >>

\* Phase 4: OCR.  analyze_frames absorbs the failure of any frame and
\* returns the frames it was given.
OCR ==
  /\ pc = "ocr"
  /\ current_progress' = Pct(30)
  /\ sink' = emit_progress(sink, "processing", Pct(30), "ocr", "")
  /\ pc' = "vision"
  /\ UNCHANGED << plan, strategy, all_frames, key_frames, timeline, report, error >>
  /\ UNCHANGED << visionVars, verifyVars, unitVars >>

\* Phase 5 up to the first await of run_vision_with_progress: the record of
\* the phase, create_task, the loop test (the new task is not done) and
\* asyncio.sleep(poll_interval).
VisionStart ==
  /\ pc = "vision"
  /\ current_progress' = Pct(30)
  /\ sink' = emit_progress(sink, "processing", Pct(30), "vision", "")
  /\ vision_progress_state' = [current |-> Pct(30), ai_start |-> FALSE]
  /\ vision_task' = NoTask
  /\ ready' = Append(ready, "vision")
  /\ timer' = TRUE
  /\ pc' = "sleeping"
  /\ UNCHANGED << plan, strategy, all_frames, key_frames, timeline, report, error >>
  /\ UNCHANGED << verifyVars, unitVars >>

\* The event loop: the sleep of the run is over
TimerFires ==
  /\ timer
  /\ timer' = FALSE
  /\ ready' = Append(ready, "main")
  /\ UNCHANGED << pc, plan, strategy, all_frames, key_frames, vision_task,
                  vision_progress_state, current_progress, sink, timeline, report, error >>
  /\ UNCHANGED << verifyVars, unitVars >>

\* How long generate_llm_response of the timeline call can take, in seconds
CallSeconds == {0, 3}

\* The event loop runs the vision task: analyze_video_comprehensive from its
\* first line to its return, with the callbacks it makes on the way.  The
\* coroutine has no await: generate_llm_response blocks the event loop for
\* the seconds the call takes, and no other task runs before the return.
RunVision ==
  /\ ready # <<>>
  /\ Head(ready) = "vision"
  /\ \E response \in VisionResponses, seconds \in CallSeconds :
       LET a == analyze_video_comprehensive(key_frames, response)
           st == VisionCallbacks([state |-> vision_progress_state, records |-> sink],
                                 a.messages, 1)
       IN  /\ vision_task' = [done |-> TRUE, result |-> <<a.timeline>>,
                               response |-> response.kind,
                               seconds |-> IF key_frames = <<>> THEN 0 ELSE seconds]
           /\ vision_progress_state' = st.state
           /\ sink' = st.records
           /\ current_progress' = IF a.messages = <<>> THEN current_progress
                                  ELSE st.state.current
  /\ ready' = Tail(ready)
  /\ UNCHANGED << pc, plan, strategy, all_frames, key_frames, timer, timeline, report, error >>
  /\ UNCHANGED << verifyVars, unitVars >>

\* The event loop resumes the run after its sleep.  While the task is not
\* done: the watchdog tick (its assignment to current_progress binds a local
\* of run_vision_with_progress) and another sleep.  When it is done: the
\* loop ends, the timeline is taken and phase 5 closes with its record.
WatchdogWake ==
  /\ pc = "sleeping"
  /\ ready # <<>>
  /\ Head(ready) = "main"
  /\ ready' = Tail(ready)
  /\ IF ~vision_task.done
     THEN /\ \E due \in BOOLEAN :
               IF /\ Leq(Pct(40), vision_progress_state.current)
                  /\ ~Leq(Pct(58), vision_progress_state.current)
                  /\ vision_progress_state.ai_start
                  /\ due
               THEN LET c == vision_progress_state.current
                        bumped == IF Leq(Pct(58), <<c[1] + 1, c[2]>>) THEN Pct(58)
                                  ELSE <<c[1] + 1, c[2]>>
                    IN  /\ vision_progress_state' =
                             [vision_progress_state EXCEPT !.current = bumped]
                        /\ sink' = emit_progress(sink, "processing", bumped, "vision", "")
               ELSE UNCHANGED << vision_progress_state, sink >>
          /\ timer' = TRUE
          /\ UNCHANGED << pc, timeline, current_progress >>
     ELSE /\ timeline' = vision_task.result
          /\ current_progress' = Pct(60)
          /\ sink' = emit_progress(sink, "processing", Pct(60), "vision", "")
          /\ pc' = "verification"
          /\ UNCHANGED << timer, vision_progress_state >>
  /\ UNCHANGED << plan, strategy, all_frames, key_frames, vision_task, report, error >>
  /\ UNCHANGED << verifyVars, unitVars >>

\* the step numbers of a list of (step, evidence) pairs
StepNumbers(pairs) == [i \in 1..Len(pairs) |-> pairs[i][1].step_number]

\* Steps 2 and 3 of _smart_verify_steps and the choice of the mode
Triage(gathered, flagged) ==
  /\ initial_evidence' = gathered
  /\ needs_llm' = flagged
  /\ code_results' = CodeResults(CodeBased(gathered))
  /\ pc' = IF flagged = <<>> THEN "reporting"
           ELSE IF Len(flagged) < BatchThreshold THEN "per_step"
           ELSE "batch"

TriageAll(gathered) == Triage(gathered, NeedsLLM(gathered))

\* Phase 6 up to the first adjudication call: the record of the phase, then
\* steps 1 to 3 of _smart_verify_steps.
VerifyStart ==
  /\ pc = "verification"
  /\ current_progress' = Pct(60)
  /\ sink' = emit_progress(sink, "processing", Pct(60), "verification", "")
  /\ TriageAll(GatherEvidence(plan, timeline[1]))
  /\ UNCHANGED << llm_results, llm_calls >>
  /\ UNCHANGED << plan, strategy, all_frames, key_frames, timeline, report, error >>
  /\ UNCHANGED << visionVars, unitVars >>

\* A variant of accumulated_results that keeps only the deterministic
\* verdicts as context
AccumulatedWithoutSemantic(previous_results, results) == previous_results

\* _verify_steps_async: accumulated_results when the next call is issued,
\* list(previous_results) with every result so far appended
accumulated_results(previous_results, results) == previous_results \o results

\* One turn of the loop of _verify_steps_async: the progress callback with
\* the step's own number, then the adjudication call for the step.
VerifyStep ==
  /\ pc = "per_step"
  /\ LET i == Len(llm_results) + 1
         step == needs_llm[i][1]
         evidence == needs_llm[i][2]
         progress_pct == VerificationProgress(step.step_number,
                                              Len(needs_llm) + Len(code_results))
     IN  /\ current_progress' = progress_pct
         /\ sink' = emit_progress(sink, "processing", progress_pct, "verification", "")
         /\ \E response \in SingleResponses :
              /\ llm_results' = Append(llm_results,
                                       verify_step_with_timeline_evidence(step, evidence, response))
              /\ llm_calls' = Append(llm_calls,
                     [mode |-> "step", steps |-> <<step.step_number>>,
                      previous_results |-> accumulated_results(code_results, llm_results),
                      outcome |-> response.kind])
         /\ pc' = IF i = Len(needs_llm) THEN "reporting" ELSE "per_step"
  /\ UNCHANGED << initial_evidence, needs_llm, code_results >>
  /\ UNCHANGED << plan, strategy, all_frames, key_frames, timeline, report, error >>
  /\ UNCHANGED << visionVars, unitVars >>

\* batch_verify_steps for all the flagged steps: one call, no progress
\* callback.
VerifyBatch ==
  /\ pc = "batch"
  /\ \E response \in BatchResponses(Len(needs_llm)) :
       /\ llm_results' = batch_verify_steps(needs_llm, response)
       /\ llm_calls' = Append(llm_calls,
              [mode |-> "batch", steps |-> StepNumbers(needs_llm),
               previous_results |-> code_results,
               outcome |-> response.kind])
  /\ pc' = "reporting"
  /\ UNCHANGED << initial_evidence, needs_llm, code_results >>
  /\ UNCHANGED << plan, strategy, all_frames, key_frames, timeline, current_progress,
                  sink, report, error >>
  /\ UNCHANGED << visionVars, unitVars >>

\* Step 5 of _smart_verify_steps, phase 7 and the completion of the run
Report ==
  /\ pc = "reporting"
  /\ current_progress' = Pct(100)
  /\ sink' = emit_progress(
               emit_progress(sink, "processing", Pct(95), "reporting", ""),
               "completed", Pct(100), "complete", "")
  /\ report' = << _generate_report(MergeResults(code_results, llm_results)) >>
  /\ pc' = "done"
  /\ UNCHANGED << plan, strategy, all_frames, key_frames, timeline, error >>
  /\ UNCHANGED << visionVars, verifyVars, unitVars >>

Next ==
  \/ Planning
  \/ Extraction
  \/ KeyFrames
  \/ OCR
  \/ VisionStart
  \/ TimerFires
  \/ RunVision
  \/ WatchdogWake
  \/ VerifyStart
  \/ VerifyStep
  \/ VerifyBatch
  \/ Report

Spec == Init /\ [][Next]_vars

-----------------------------------------------------------------------------
(* Direct calls of single operations, with the arguments drawn from        *)
(* bounded sets: call is the operation and its arguments, ret what it      *)
(* returned.                                                               *)

\* the state of the one run of Spec other than pc
soloVars == << plan, strategy, all_frames, key_frames, ready, timer, vision_task,
               vision_progress_state, current_progress, sink, timeline,
               initial_evidence, needs_llm, code_results, llm_results, llm_calls,
               report, error >>

\* the variables a direct call leaves alone
runVars == << soloVars, orchestrator, runs >>

\* Bound: the longest list of verdicts given to _generate_report
MaxVerdicts == 4

TxtAssertCartEmpty == <<"A","s","s","e","r","t"," ","c","a","r","t"," ","e","m","p","t","y">>

TxtSeeList == <<"s","e","e"," ","l","i","s","t">>

TxtValidateThat == <<"V","a","l","i","d","a","t","e"," ","T","h","a","t"," ","l","i","s","t">>

TxtCheckBox == <<"C","H","E","C","K"," ","b","o","x">>

TxtClickMenu == <<"c","l","i","c","k"," ","m","e","n","u">>

TxtOpen == <<"o","p","e","n">>

\* The steps given to triage: no trigger; the word "assert" alone; a marker
\* in the action, in another case; a marker in the description; an
\* interaction verb in the action, in capitals; an interaction verb in the
\* description only.
TriageSteps ==
  { [step_number |-> 1, description |-> TxtOpenCart, action |-> TxtNavigate],
    [step_number |-> 1, description |-> TxtAssertCartEmpty, action |-> TxtVerify],
    [step_number |-> 1, description |-> TxtSeeList, action |-> TxtValidateThat],
    [step_number |-> 1, description |-> TxtTotalShouldBe, action |-> TxtVerify],
    [step_number |-> 1, description |-> TxtSeeList, action |-> TxtCheckBox],
    [step_number |-> 1, description |-> TxtClickMenu, action |-> TxtOpen] }

TxtTurtleNeck == <<"T","u","r","t","l","e"," ","N","e","c","k"," ","i","s"," ","N","O","T"," ","a","v","a","i","l","a","b","l","e">>

TxtItemMissing == <<"i","t","e","m"," ","m","i","s","s","i","n","g">>

TxtLookupFails == <<"l","o","o","k","u","p"," ","f","a","i","l","s">>

TxtFoundOne == <<"F","o","u","n","d"," ","1"," ","m","a","t","c","h","i","n","g"," ","e","v","e","n","t","s">>

\* The (description, reasoning) texts of the evidence given to triage
TriageTexts ==
  { <<TxtCartPageOpen, TxtFoundOne>>,
    <<TxtTurtleNeck, TxtFoundOne>>,
    <<TxtItemMissing, TxtFoundOne>>,
    <<TxtCartPageOpen, TxtLookupFails>>,
    <<TxtNoEvents, TxtSearched \o TxtOpen \o TxtAfter \o Fmt1(5) \o TxtNoMatches>> }

\* The confidences of the evidence given to triage, in hundredths
TriageConfidences == {0, 30, 31, 49, 50, 60, 84, 85, 89, 90, 95, 100}

\* StepEvidence(...)
StepEvidence(found, confidence, texts) ==
  [found |-> found, confidence |-> confidence,
   timestamp |-> IF found THEN <<10>> ELSE <<>>,
   frame_number |-> IF found THEN <<1>> ELSE <<>>,
   matching_events |-> <<>>, description |-> texts[1], reasoning |-> texts[2]]

TriageCalls ==
  { [op |-> "triage", step |-> st, evidence |-> StepEvidence(f, c, t)] :
      st \in TriageSteps, f \in BOOLEAN, c \in TriageConfidences, t \in TriageTexts }

\* VerificationResult(...) with the given status for step number n
Verdict(n, status) ==
  [step |-> TestStep(n), status |-> status, confidence |-> 50,
   video_timestamp |-> <<>>, agent_decisions |-> <<>>, notes |-> ""]

ReportCalls ==
  { [op |-> "report",
     verification_results |-> [i \in DOMAIN f |-> Verdict(i, f[i])]] :
      f \in UNION { [1..n -> {"observed", "deviation", "uncertain"}] : n \in 0..MaxVerdicts } }

\* Bound: the longest timeline given to find_events_matching and to
\* verify_step_against_timeline
MaxEvents == 3

\* Bound: the longest plan given to the evidence-gathering loop
MaxGathered == 3

\* the same scene as EvOpen, seen again later: the two score alike
EvOpenLater == TimelineEvent(50, 3, "navigation", TxtCartPageOpen, 80)

\* an event whose keywords are in the visible text, not in the description
EvLabelled ==
  [TimelineEvent(20, 1, "type", <<"m","e","n","u">>, 70)
     EXCEPT !.text_visible = << <<"V","i","e","w"," ","C","a","r","t">>, <<"T","o","t","a","l">> >>,
            !.ui_elements = << <<"O","p","e","n"," ","b","u","t","t","o","n">> >>]

EventPool == { EvEarly, EvOpen, EvLabelled, EvNotAvailable, EvTotal, EvOpenLater }

\* the lists of at most n distinct events of the pool, in any order (the
\* events of a timeline are kept in the order of the response)
EventLists(n) ==
  UNION { { e \in [1..k -> EventPool] : \A i, j \in 1..k : i # j => e[i] # e[j] } :
          k \in 0..n }

\* VideoTimeline(events = ..., narrative = "")
VideoTimeline(events) == [events |-> events, narrative |-> ""]

\* The keyword lists given to find_events_matching: those of the planned
\* steps, none, and one keyword with a capital
MatchKeywords ==
  { _extract_keywords(StepTexts[i].description, StepTexts[i].action) :
      i \in 1..Len(StepTexts) }
    \cup { <<>>, << <<"C","a","r","t">> >> }

\* The floors given to find_events_matching, in tenths of a second
MatchFloors == {0, 5, 10, 15, 35}

\* find_events_matching in strict and then in relaxed mode, same arguments
MatchCalls ==
  { [op |-> "match", events |-> ev, keywords |-> kw, min_timestamp |-> t] :
      ev \in EventLists(MaxEvents), kw \in MatchKeywords, t \in MatchFloors }

\* verify_step_against_timeline for one step
EvidenceCalls ==
  { [op |-> "evidence", step |-> TestStep(n), timeline |-> VideoTimeline(ev),
     previous_step_timestamp |-> prev] :
      n \in 1..Len(StepTexts), ev \in EventLists(MaxEvents),
      prev \in {<<>>, <<0>>, <<10>>, <<30>>} }

\* Step 1 of _smart_verify_steps for a plan and a timeline
GatherCalls ==
  { [op |-> "gather", steps |-> [i \in DOMAIN g |-> TestStep(g[i])],
     timeline |-> VideoTimeline(ev)] :
      g \in UNION { Arrangements(n) : n \in 0..MaxGathered },
      ev \in EventLists(MaxEvents - 1) }

\* Spellings of the status of a decision
StatusObservedCapital == <<"O","b","s","e","r","v","e","d">>

StatusObservedUpper == <<"O","B","S","E","R","V","E","D">>

StatusDeviationUpper == <<"D","E","V","I","A","T","I","O","N">>

StatusUncertainMixed == <<"U","n","C","e","r","t","a","i","n">>

StatusPassed == <<"p","a","s","s","e","d">>

StatusObservedPadded == <<" ","o","b","s","e","r","v","e","d">>

\* A JSON object of an adjudication answer in full: the step_number it names
\* and its status and confidence, each absent, of the wrong type or given
JsonElement(step_number, has_status, status_str, status, conf_kind, conf) ==
  [step_number |-> step_number, is_object |-> TRUE, has_status |-> has_status,
   status_str |-> status_str, status |-> status, conf_kind |-> conf_kind, conf |-> conf]

\* The values of "status": the three statuses in several spellings, other
\* strings, a value that is no string, and the key left out
ElementStatuses ==
  { [has |-> TRUE, str |-> TRUE, status |-> t] :
      t \in { StatusObserved, StatusObservedCapital, StatusObservedUpper, StatusDeviation,
              StatusDeviationUpper, StatusUncertain, StatusUncertainMixed, StatusPassed,
              StatusObservedPadded, <<>> } }
  \cup { [has |-> TRUE, str |-> FALSE, status |-> <<>>],
         [has |-> FALSE, str |-> FALSE, status |-> <<>>] }

\* The values of "confidence", in hundredths: numbers inside and outside
\* [0, 1], a value float() rejects, and the key left out
ElementConfidences ==
  { [kind |-> "num", conf |-> c] : c \in {0 - 20, 0, 35, 100, 150} }
  \cup { [kind |-> "bad", conf |-> 0], [kind |-> "absent", conf |-> 0] }

Elements(step_number) ==
  { JsonElement(step_number, st.has, st.str, st.status, c.kind, c.conf) :
      st \in ElementStatuses, c \in ElementConfidences }

\* the evidence of a flagged step
FlaggedEvidence == StepEvidence(TRUE, 60, <<TxtCartPageOpen, TxtFoundOne>>)

\* _parse_verification_response on the answer to a per-step call
ParseCalls ==
  { [op |-> "parse", step |-> TestStep(2), evidence |-> FlaggedEvidence, response |-> r] :
      r \in { LLMResponse("object", "", e, <<>>) : e \in Elements(2) }
             \cup { LLMResponse("garbage", "", JsonScalar, <<>>),
                    LLMResponse("empty", "", JsonScalar, <<>>),
                    LLMResponse("array", "", JsonScalar, <<JsonDecision(StatusObserved, 90)>>) } }

\* Bound: the flagged steps of a batch given to the parser
MaxBatch == 3

\* The elements of the arrays given to the batch parser: each names step 1
BatchElements ==
  { JsonElement(1, TRUE, TRUE, StatusObservedUpper, "num", 150),
    JsonElement(1, TRUE, TRUE, StatusDeviation, "absent", 0),
    JsonElement(1, TRUE, TRUE, StatusPassed, "num", 35),
    JsonElement(1, TRUE, TRUE, StatusObserved, "bad", 0),
    JsonScalar }

\* the flagged steps of a batch, in plan order: steps 2, 4 and 5
BatchSteps(k) == [i \in 1..k |-> << TestStep(<<2, 4, 5, 1>>[i]), FlaggedEvidence >>]

\* _parse_batch_verification_response on the answer to the batched call:
\* arrays shorter and longer than the batch, an object, and text that is no
\* JSON
BatchParseCalls ==
  { [op |-> "parse_batch", steps_to_verify |-> BatchSteps(k), response |-> r] :
      k \in 1..MaxBatch,
      r \in { LLMResponse("array", "", JsonScalar, el) :
                el \in UNION { [1..n -> BatchElements] : n \in 0..(MaxBatch + 1) } }
             \cup { LLMResponse("object", "", JsonDecision(StatusObserved, 90), <<>>),
                    LLMResponse("garbage", "", JsonScalar, <<>>) } }

\* Bound: the most frames given to extract_key_frames
MaxFrameCount == 125

\* frame k of n extracted frames, one frame a second
VideoFrame(k) == [frame_number |-> k, timestamp |-> k * 10]

\* extract_key_frames on the frames 0 .. n - 1 with max_key_frames=15
KeyFrameCalls ==
  { [op |-> "key_frames", all_frames |-> [j \in 1..n |-> VideoFrame(j - 1)]] :
      n \in 0..MaxFrameCount }

\* GeminiProvider.generate: max_retries and base_delay
max_retries == 5

base_delay == 5

\* str(e) of the exceptions generate_content can raise
ErrTooManyRequests == <<"4","2","9"," ","T","o","o"," ","M","a","n","y"," ","R","e","q","u","e","s","t","s">>

ErrResourceExhausted == <<"Q","u","o","t","a"," ","R","E","S","O","U","R","C","E","_","E","X","H","A","U","S","T","E","D">>

ErrInternal == <<"5","0","0"," ","I","n","t","e","r","n","a","l"," ","e","r","r","o","r">>

ErrDeadline4290 == <<"D","e","a","d","l","i","n","e"," ","o","f"," ","4","2","9","0"," ","m","s"," ","e","x","c","e","e","d","e","d">>

TxtErrorGenerating == <<"E","r","r","o","r"," ","g","e","n","e","r","a","t","i","n","g"," ","c","o","n","t","e","n","t",":"," ">>

\* What generate_content does on one attempt: it returns text, returns no
\* text, or raises
AttemptOutcomes ==
  { [kind |-> "text", msg |-> <<>>], [kind |-> "empty", msg |-> <<>>] }
  \cup { [kind |-> "raise", msg |-> m] :
           m \in {ErrTooManyRequests, ErrResourceExhausted, ErrInternal, ErrDeadline4290} }

\* GeminiProvider.generate, with and without images
GenerateCalls == { [op |-> "generate", image_paths |-> b] : b \in BOOLEAN }

\* Bound: the calls made on one VerificationAgent in a row
MaxSession == 3

\* BaseAgent.__init__ of the VerificationAgent: no call counted yet
AgentInit == [llm_calls |-> 0]

\* The (step, evidence) pairs of a session
SessionPairs ==
  { [kind |-> "triage", step |-> st, evidence |-> StepEvidence(f, c, t)] :
      st \in { [step_number |-> 1, description |-> TxtOpenCart, action |-> TxtNavigate],
               [step_number |-> 1, description |-> TxtSeeList, action |-> TxtCheckBox] },
      f \in {TRUE}, c \in {60, 95},
      t \in { <<TxtCartPageOpen, TxtFoundOne>>, <<TxtTurtleNeck, TxtFoundOne>> } }

\* Sessions: triage calls, with adjudication calls of the same agent between
SessionCalls ==
  { [op |-> "session", ops |-> o] :
      o \in UNION { [1..n -> SessionPairs \cup {[kind |-> "adjudicate"]}] : n \in 1..MaxSession } }

InitCalls ==
  /\ pc = "call"
  /\ plan = <<>>
  /\ Idle
  /\ \/ call \in TriageCalls
     \/ call \in ReportCalls
     \/ call \in MatchCalls
     \/ call \in EvidenceCalls
     \/ call \in GatherCalls
     \/ call \in SessionCalls
     \/ call \in ParseCalls
     \/ call \in BatchParseCalls
     \/ call \in KeyFrameCalls
     \/ call \in GenerateCalls
  /\ ret = <<>>
  /\ orchestrator = OrchestratorInit
  /\ runs = <<>>

\* Steps 2 and 3 of _smart_verify_steps for one (step, evidence) pair: the
\* flag of triage and, when the step is not flagged, its deterministic
\* verdict.
CallTriage ==
  /\ pc = "call"
  /\ call.op = "triage"
  /\ ret' = << [flagged |-> needs_llm_verification(call.step, call.evidence),
               code_results |-> CodeResults(CodeBased(<< <<call.step, call.evidence>> >>))] >>
  /\ pc' = "returned"
  /\ UNCHANGED << runVars, call >>

\* _generate_report for a list of verdicts
CallReport ==
  /\ pc = "call"
  /\ call.op = "report"
  /\ ret' = << _generate_report(call.verification_results) >>
  /\ pc' = "returned"
  /\ UNCHANGED << runVars, call >>

\* VideoTimeline.find_events_matching, called in strict and in relaxed mode
CallMatch ==
  /\ pc = "call"
  /\ call.op = "match"
  /\ ret' = << [strict |-> find_events_matching(call.events, call.keywords,
                                                call.min_timestamp, TRUE),
               relaxed |-> find_events_matching(call.events, call.keywords,
                                                 call.min_timestamp, FALSE)] >>
  /\ pc' = "returned"
  /\ UNCHANGED << runVars, call >>

\* ComprehensiveVisionAgent.verify_step_against_timeline
CallEvidence ==
  /\ pc = "call"
  /\ call.op = "evidence"
  /\ ret' = << verify_step_against_timeline(call.step, call.timeline,
                                            call.previous_step_timestamp) >>
  /\ pc' = "returned"
  /\ UNCHANGED << runVars, call >>

\* previous_timestamp of the gathering loop after the turns recorded in r
PreviousAfter(r) == IF r = <<>> THEN <<>> ELSE r[Len(r)].previous_timestamp

\* One turn of the loop of step 1 of _smart_verify_steps.  ret holds one
\* record per turn: the step, the timestamp given to
\* verify_step_against_timeline and the floor it made of it, the evidence,
\* and previous_timestamp after the turn.
CallGatherTurn ==
  /\ pc = "call"
  /\ call.op = "gather"
  /\ Len(ret) < Len(call.steps)
  /\ ret' = Append(ret,
       [step |-> call.steps[Len(ret) + 1],
        given |-> PreviousAfter(ret),
        min_timestamp |-> min_timestamp(PreviousAfter(ret)),
        evidence |-> verify_step_against_timeline(call.steps[Len(ret) + 1], call.timeline,
                                                  PreviousAfter(ret)),
        previous_timestamp |->
          NextPrevious(PreviousAfter(ret),
                       verify_step_against_timeline(call.steps[Len(ret) + 1], call.timeline,
                                                    PreviousAfter(ret)))])
  /\ UNCHANGED << pc, runVars, call >>

\* the loop of step 1 is over
CallGatherDone ==
  /\ pc = "call"
  /\ call.op = "gather"
  /\ Len(ret) = Len(call.steps)
  /\ pc' = "returned"
  /\ UNCHANGED << ret, runVars, call >>

\* the VerificationAgent after the calls of the session made so far
AgentAfter(r) == IF r = <<>> THEN AgentInit ELSE r[Len(r)].agent

\* A variant of triage with a budget: nothing is flagged once the agent has
\* made an adjudication call
TriageWithBudget(agent, step, evidence) ==
  [flag |-> needs_llm_verification(step, evidence) /\ agent.llm_calls = 0,
   agent |-> agent, step |-> step, evidence |-> evidence]

\* A call of needs_llm_verification with all it leaves behind: the flag it
\* returns, and the agent, the step and the evidence after the call
TriageOutcome(agent, step, evidence) ==
  [flag |-> needs_llm_verification(step, evidence),
   agent |-> agent, step |-> step, evidence |-> evidence]

\* generate_llm_response of an adjudication call: track_llm_call
AdjudicateOutcome(agent) == [agent EXCEPT !.llm_calls = @ + 1]

\* The next call of a session.  ret holds one record per call: what was
\* called with which arguments on which agent, and the outcome.
CallSessionTurn ==
  /\ pc = "call"
  /\ call.op = "session"
  /\ Len(ret) < Len(call.ops)
  /\ LET o == call.ops[Len(ret) + 1]
     IN  ret' = Append(ret,
           IF o.kind = "triage"
           THEN [kind |-> "triage", before |-> AgentAfter(ret), step |-> o.step,
                 evidence |-> o.evidence,
                 flag |-> TriageOutcome(AgentAfter(ret), o.step, o.evidence).flag,
                 agent |-> TriageOutcome(AgentAfter(ret), o.step, o.evidence).agent,
                 step_after |-> TriageOutcome(AgentAfter(ret), o.step, o.evidence).step,
                 evidence_after |-> TriageOutcome(AgentAfter(ret), o.step, o.evidence).evidence]
           ELSE [kind |-> "adjudicate", before |-> AgentAfter(ret),
                 agent |-> AdjudicateOutcome(AgentAfter(ret))])
  /\ pc' = IF Len(ret) + 1 = Len(call.ops) THEN "returned" ELSE pc
  /\ UNCHANGED << runVars, call >>

\* _parse_verification_response on one response
CallParse ==
  /\ pc = "call"
  /\ call.op = "parse"
  /\ ret' = << _parse_verification_response(call.response, call.step, call.evidence) >>
  /\ pc' = "returned"
  /\ UNCHANGED << runVars, call >>

\* _parse_batch_verification_response on one response
CallParseBatch ==
  /\ pc = "call"
  /\ call.op = "parse_batch"
  /\ ret' = _parse_batch_verification_response(call.response, call.steps_to_verify)
  /\ pc' = "returned"
  /\ UNCHANGED << runVars, call >>

\* extract_key_frames as phase 3 calls it
CallKeyFrames ==
  /\ pc = "call"
  /\ call.op = "key_frames"
  /\ ret' = extract_key_frames(call.all_frames, MaxKeyFrames)
  /\ pc' = "returned"
  /\ UNCHANGED << runVars, call >>

\* A variant of the backoff that waits base_delay before every retry
ConstantDelay(attempt) == base_delay

\* delay = base_delay * (2 ** attempt)
RetryDelay(attempt) == base_delay * 2^attempt

\* One pass of the loop of GeminiProvider.generate.  The result is [returned,
\* value, delay]: the string returned, or the seconds slept before the next
\* pass.  The text of the model is kept as "text".
GenerateAttempt(attempt, outcome) ==
  IF outcome.kind = "empty"
  THEN [returned |-> TRUE, value |-> <<"{","}">>, delay |-> 0]
  ELSE IF outcome.kind = "text"
  THEN [returned |-> TRUE, value |-> <<"t","e","x","t">>, delay |-> 0]
  ELSE IF /\ \/ Contains(outcome.msg, <<"4","2","9">>)
             \/ Contains(outcome.msg, <<"R","E","S","O","U","R","C","E","_","E","X","H","A","U","S","T","E","D">>)
          /\ attempt < max_retries
  THEN [returned |-> FALSE, value |-> <<>>, delay |-> RetryDelay(attempt)]
  ELSE [returned |-> TRUE, value |-> TxtErrorGenerating \o outcome.msg, delay |-> 0]

\* The next pass of the loop, for attempt in range(max_retries + 1).  ret
\* holds one record per pass made.
CallGenerateAttempt ==
  /\ pc = "call"
  /\ call.op = "generate"
  /\ Len(ret) < max_retries + 1
  /\ \E outcome \in AttemptOutcomes :
       LET a == GenerateAttempt(Len(ret), outcome)
       IN  /\ ret' = Append(ret, [attempt |-> Len(ret), outcome |-> outcome,
                                  returned |-> a.returned, value |-> a.value,
                                  delay |-> a.delay])
           /\ pc' = IF a.returned THEN "returned" ELSE pc
  /\ UNCHANGED << runVars, call >>

NextCalls ==
  \/ CallTriage
  \/ CallReport
  \/ CallMatch
  \/ CallEvidence
  \/ CallGatherTurn
  \/ CallGatherDone
  \/ CallSessionTurn
  \/ CallParse
  \/ CallParseBatch
  \/ CallKeyFrames
  \/ CallGenerateAttempt

SpecCalls == InitCalls /\ [][NextCalls]_vars

\* generate runs on: nothing stops the loop between two passes, and
\* time.sleep returns
SpecCallsFair == SpecCalls /\ WF_vars(CallGenerateAttempt)

-----------------------------------------------------------------------------
(* Runs of execute_verification that interleave on one OrchestratorAgent,  *)
(* the module-level orchestrator of the API.  A run gives up the event     *)
(* loop only at its awaits that really suspend: the three                  *)
(* asyncio.to_thread calls and the asyncio.sleep of the vision phase.  An  *)
(* action is one run's code between two such points.  Every record in a    *)
(* sink carries, beside the TaskProgress record, the run that emitted it.  *)

\* Bound: the runs that interleave
NumRuns == 2

RunIds == 1..NumRuns

\* A run that has not entered execute_verification: the strategy planning
\* will return for it and the number of frames of its video
NewRun(st, video_frames) ==
  [at |-> "start", strategy |-> st, video_frames |-> video_frames,
   all_frames |-> <<>>, key_frames |-> <<>>, task_done |-> FALSE,
   llm_start |-> 0, vision_llm_calls |-> <<>>, sink |-> <<>>, emitted |-> 0]

\* OrchestratorAgent.emit_progress called by run r while the callback held by
\* the orchestrator is that of run cb: the record goes to the sink of cb
Deliver(rs, cb, r, status, progress, phase, err) ==
  LET counted == [rs EXCEPT ![r].emitted = @ + 1]
  IN  IF cb = 0 THEN counted
      ELSE [counted EXCEPT ![cb].sink =
              Append(@, [from |-> r,
                         record |-> emit_progress(<<>>, status, progress, phase, err)[1]])]

RECURSIVE DeliverAll(_, _, _, _, _)
\* emit_progress for each record of a list in turn
DeliverAll(rs, cb, r, records, i) ==
  IF i > Len(records) THEN rs
  ELSE DeliverAll(Deliver(rs, cb, r, records[i].status, records[i].progress,
                          records[i].phase, records[i].error),
                  cb, r, records, i + 1)

InitShared ==
  /\ pc = "shared"
  /\ plan = <<>>
  /\ Idle
  /\ call = <<>>
  /\ ret = <<>>
  /\ orchestrator = OrchestratorInit
  /\ runs \in [RunIds -> { NewRun(st, n) : st \in Strategies, n \in {0, VideoFrames} }]

\* Run r enters execute_verification: self.progress_callback is set to its
\* callback, then phase 1 and phase 2 up to await asyncio.to_thread of
\* _extract_frames
RunEnter(r) ==
  /\ pc = "shared"
  /\ runs[r].at = "start"
  /\ orchestrator' = [orchestrator EXCEPT !.progress_callback = r]
  /\ runs' = [ Deliver(Deliver(runs, r, r, "processing", Pct(5), "planning", ""),
                       r, r, "processing", Pct(15), "extraction", "")
               EXCEPT ![r].at = "extraction" ]
  /\ UNCHANGED << pc, soloVars, call, ret >>

\* _extract_frames returns or raises in run r: the except block, or phase 3
\* up to await asyncio.to_thread of extract_key_frames
RunExtracted(r) ==
  /\ pc = "shared"
  /\ runs[r].at = "extraction"
  /\ LET x == _extract_frames(runs[r].video_frames, runs[r].strategy)
         cb == orchestrator.progress_callback
     IN  IF x.raised
         THEN runs' = [ Deliver(runs, cb, r, "failed", Pct(15), "error",
                                "integer division or modulo by zero")
                        EXCEPT ![r].at = "raised" ]
         ELSE runs' = [ Deliver(runs, cb, r, "processing", Pct(20), "key_frames", "")
                        EXCEPT ![r].at = "key_frames", ![r].all_frames = x.frames ]
  /\ UNCHANGED << pc, soloVars, call, ret, orchestrator >>

\* The key frames of run r are selected: phase 4 up to await
\* asyncio.to_thread of analyze_frames
RunKeyFrames(r) ==
  /\ pc = "shared"
  /\ runs[r].at = "key_frames"
  /\ runs' = [ Deliver(runs, orchestrator.progress_callback, r,
                       "processing", Pct(30), "ocr", "")
               EXCEPT ![r].at = "ocr",
                      ![r].key_frames = extract_key_frames(runs[r].all_frames, MaxKeyFrames) ]
  /\ UNCHANGED << pc, soloVars, call, ret, orchestrator >>

\* OCR of run r is over: phase 5 up to the first asyncio.sleep, with
\* llm_start read from the counter of the vision agent
RunVisionStart(r) ==
  /\ pc = "shared"
  /\ runs[r].at = "ocr"
  /\ runs' = [ Deliver(runs, orchestrator.progress_callback, r,
                       "processing", Pct(30), "vision", "")
               EXCEPT ![r].at = "sleeping", ![r].task_done = FALSE,
                      ![r].llm_start = orchestrator.vision_llm_calls ]
  /\ UNCHANGED << pc, soloVars, call, ret, orchestrator >>

\* The vision task of run r: analyze_video_comprehensive from its first line
\* to its return; generate_llm_response counts the call on the agent
RunVisionTask(r) ==
  /\ pc = "shared"
  /\ runs[r].at = "sleeping"
  /\ ~runs[r].task_done
  /\ \E response \in VisionResponses :
       LET a == analyze_video_comprehensive(runs[r].key_frames, response)
           st == VisionCallbacks([state |-> [current |-> Pct(30), ai_start |-> FALSE],
                                  records |-> <<>>], a.messages, 1)
       IN  runs' = [ DeliverAll(runs, orchestrator.progress_callback, r, st.records, 1)
                     EXCEPT ![r].task_done = TRUE ]
  /\ orchestrator' = [orchestrator EXCEPT !.vision_llm_calls =
                        IF runs[r].key_frames = <<>> THEN @ ELSE @ + 1]
  /\ UNCHANGED << pc, soloVars, call, ret >>

\* Run r wakes with its vision task done: the vision metrics, then phases 6
\* and 7, which never suspend, to the return of the report
RunFinish(r) ==
  /\ pc = "shared"
  /\ runs[r].at = "sleeping"
  /\ runs[r].task_done
  /\ LET cb == orchestrator.progress_callback
         closing == << [status |-> "processing", progress |-> Pct(60), phase |-> "vision", error |-> ""],
                       [status |-> "processing", progress |-> Pct(60), phase |-> "verification", error |-> ""],
                       [status |-> "processing", progress |-> Pct(95), phase |-> "reporting", error |-> ""],
                       [status |-> "completed", progress |-> Pct(100), phase |-> "complete", error |-> ""] >>
     IN  runs' = [ DeliverAll(runs, cb, r, closing, 1)
                   EXCEPT ![r].at = "done",
                          ![r].vision_llm_calls =
                             << orchestrator.vision_llm_calls - runs[r].llm_start >> ]
  /\ UNCHANGED << pc, soloVars, call, ret, orchestrator >>

NextShared ==
  \E r \in RunIds :
    \/ RunEnter(r)
    \/ RunExtracted(r)
    \/ RunKeyFrames(r)
    \/ RunVisionStart(r)
    \/ RunVisionTask(r)
    \/ RunFinish(r)

SpecShared == InitShared /\ [][NextShared]_vars

-----------------------------------------------------------------------------
(* Properties.                                                             *)

\* the verdicts of the report the run returned
ReportedVerdicts == report[1].verification_results

C2_FailureEndsRun ==
  error # "" =>
    /\ pc = "raised"
    /\ report = <<>>
    /\ sink # <<>>
    /\ sink[Len(sink)].status = "failed"
    /\ sink[Len(sink)].error = error
    /\ Cardinality({i \in DOMAIN sink : sink[i].status = "failed"}) = 1
    /\ \A i \in DOMAIN sink : sink[i].status # "completed"
    /\ \A i \in DOMAIN sink : sink[i].phase \in {"planning", "extraction", "error"}
    /\ ~ENABLED Next

\* C2 happens: frame extraction raised
C2_Witness ==
  /\ pc = "raised"
  /\ error = "integer division or modulo by zero"
  /\ Len(sink) = 3

\* C3: the list _smart_verify_steps returns holds exactly one verdict for
\* each planned step number and none for any other number, whatever the
\* adjudication calls returned.
C3_OneVerdictPerStep ==
  pc = "done" =>
    /\ Len(ReportedVerdicts) = Len(plan)
    /\ { ReportedVerdicts[i].step.step_number : i \in DOMAIN ReportedVerdicts }
         = { plan[i].step_number : i \in DOMAIN plan }
    /\ \A i, j \in DOMAIN ReportedVerdicts :
         i # j => ReportedVerdicts[i].step.step_number # ReportedVerdicts[j].step.step_number

\* C3 happens: a batch response with fewer elements than flagged steps
C3_Witness ==
  /\ pc = "done"
  /\ Len(llm_calls) = 1
  /\ llm_calls[1].mode = "batch"
  /\ \E i \in DOMAIN ReportedVerdicts :
       /\ ReportedVerdicts[i].agent_decisions # <<>>
       /\ ReportedVerdicts[i].agent_decisions[1].error = "Missing in batch response"

\* C4: the verdicts of the report are in ascending order of step number.
C4_ReportSorted ==
  pc = "done" =>
    \A i \in 1..(Len(ReportedVerdicts) - 1) :
      ReportedVerdicts[i].step.step_number < ReportedVerdicts[i + 1].step.step_number

\* C4 happens: a plan listed out of order, with verdicts of both paths, the
\* deterministic ones not all before the semantic ones by number
C4_Witness ==
  /\ pc = "done"
  /\ \E i \in 1..(Len(plan) - 1) : plan[i].step_number > plan[i + 1].step_number
  /\ \E i \in DOMAIN code_results : \E j \in DOMAIN llm_results :
       code_results[i].step.step_number > llm_results[j].step.step_number

\* the number of verdicts with the given status in the argument of the call
Given(status) ==
  Cardinality({ i \in DOMAIN call.verification_results :
                  call.verification_results[i].status = status })

\* C5: the overall status of a report is PASSED exactly when no verdict is a
\* deviation or uncertain, FAILED exactly when some verdict is a deviation,
\* UNCERTAIN otherwise; the three counts are those of the verdicts and sum to
\* total_steps.
C5_OverallStatus ==
  (pc = "returned" /\ call.op = "report") =>
    /\ (ret[1].overall_status = "PASSED") <=> (Given("deviation") = 0 /\ Given("uncertain") = 0)
    /\ (ret[1].overall_status = "FAILED") <=> (Given("deviation") > 0)
    /\ (ret[1].overall_status = "UNCERTAIN") <=> (Given("deviation") = 0 /\ Given("uncertain") > 0)
    /\ ret[1].observed_steps = Given("observed")
    /\ ret[1].deviated_steps = Given("deviation")
    /\ ret[1].uncertain_steps = Given("uncertain")
    /\ ret[1].total_steps = Len(call.verification_results)
    /\ ret[1].observed_steps + ret[1].deviated_steps + ret[1].uncertain_steps
         = ret[1].total_steps

\* C5 happens: a report over verdicts with a deviation and an uncertain one
C5_Witness ==
  /\ pc = "returned"
  /\ call.op = "report"
  /\ Given("deviation") > 0
  /\ Given("uncertain") > 0
  /\ ret[1].overall_status = "FAILED"

\* C6: pass_rate is observed_steps / total_steps * 100, within [0, 100]; with
\* no steps nothing is divided and pass_rate is 0.
C6_PassRate ==
  (pc = "returned" /\ call.op = "report") =>
    /\ ret[1].pass_rate[2] > 0
    /\ ret[1].total_steps > 0 =>
         ret[1].pass_rate[1] * ret[1].total_steps
           = ret[1].observed_steps * 100 * ret[1].pass_rate[2]
    /\ ret[1].total_steps = 0 => ret[1].pass_rate[1] = 0
    /\ 0 <= ret[1].pass_rate[1]
    /\ ret[1].pass_rate[1] <= 100 * ret[1].pass_rate[2]

\* C6 happens: the report of an empty list of verdicts
C6_Witness ==
  /\ pc = "returned"
  /\ call.op = "report"
  /\ ret[1].total_steps = 0
  /\ ret[1].pass_rate = <<0, 1>>

\* C7: triage flags a step exactly when a trigger holds: (a) an assertion
\* marker, 'assert' among them, in the step's description or action; (b) a
\* negative-observation phrase, 'missing' among them, in the evidence's
\* description or reasoning, in any case; (c) 0.5 <= confidence < 0.9;
\* (d) evidence not found and confidence > 0.3; (e) an interaction verb in
\* the step's action.
C7_FlaggedIffTrigger ==
  (pc = "returned" /\ call.op = "triage") =>
    LET step == call.step
        evidence == call.evidence
        a == \/ _is_assertion_step(step)
             \/ Contains(Lower(step.description), <<"a","s","s","e","r","t">>)
             \/ Contains(Lower(step.action), <<"a","s","s","e","r","t">>)
        b == \/ _contains_negative_observations(evidence.description)
             \/ _contains_negative_observations(evidence.reasoning)
             \/ Contains(Lower(evidence.description), <<"m","i","s","s","i","n","g">>)
             \/ Contains(Lower(evidence.reasoning), <<"m","i","s","s","i","n","g">>)
        c == 50 <= evidence.confidence /\ evidence.confidence < 90
        d == ~evidence.found /\ evidence.confidence > 30
        e == ContainsAny(Lower(step.action), interaction_keywords)
    IN  ret[1].flagged <=> (a \/ b \/ c \/ d \/ e)

\* the triage call of a step and evidence with no marker, verb or phrase,
\* evidence found with the given confidence
PlainCall(confidence) ==
  /\ call.op = "triage"
  /\ call.step = [step_number |-> 1, description |-> TxtOpenCart, action |-> TxtNavigate]
  /\ call.evidence = StepEvidence(TRUE, confidence, <<TxtCartPageOpen, TxtFoundOne>>)

\* C8: a step triage does not flag gets one verdict built from its evidence
\* alone: Observed at confidence >= 0.85, Uncertain at 0.5 <= confidence <
\* 0.85, Deviation below, with the evidence's confidence and timestamp; a
\* flagged step gets none.  Of three plain steps with confidences 0.95, 0.6
\* and 0.3 the first is deterministic Observed, the second flagged, the third
\* deterministic Deviation.
C8_DeterministicVerdict ==
  (pc = "returned" /\ call.op = "triage") =>
    /\ ret[1].flagged => ret[1].code_results = <<>>
    /\ ~ret[1].flagged =>
         /\ Len(ret[1].code_results) = 1
         /\ ret[1].code_results[1].step = call.step
         /\ ret[1].code_results[1].status =
              (IF call.evidence.confidence >= 85 THEN "observed"
               ELSE IF call.evidence.confidence >= 50 THEN "uncertain"
               ELSE "deviation")
         /\ ret[1].code_results[1].confidence = call.evidence.confidence
         /\ ret[1].code_results[1].video_timestamp = call.evidence.timestamp
         /\ ret[1].code_results[1].agent_decisions = <<>>
    /\ PlainCall(95) => ~ret[1].flagged /\ ret[1].code_results[1].status = "observed"
    /\ PlainCall(60) => ret[1].flagged
    /\ PlainCall(30) => ~ret[1].flagged /\ ret[1].code_results[1].status = "deviation"

\* C8 happens: a found, low-confidence plain step is a deterministic Deviation
C8_Witness ==
  /\ pc = "returned"
  /\ PlainCall(30)
  /\ ~ret[1].flagged
  /\ ret[1].code_results[1].status = "deviation"
  /\ ret[1].code_results[1].video_timestamp = <<10>>

\* the verdict is the fallback verdict of a failed adjudication call
IsFallback(result) ==
  /\ result.status = "uncertain"
  /\ result.confidence = 50
  /\ Len(result.agent_decisions) = 1
  /\ result.agent_decisions[1].fallback
  /\ result.agent_decisions[1].error # ""

\* the adjudication call got no usable answer
CallFailed(c) == c.outcome \in {"raise", "empty", "garbage"}

\* C9: when the adjudication call for a flagged step raises or returns an
\* empty or unparseable response, per step or batched, the step's verdict is
\* Uncertain with confidence 0.5 and a single decision tagged fallback that
\* carries the error text; nothing is raised, the run goes on and completes
\* with a report holding that verdict.
C9_FailedCallFallsBack ==
  /\ \A i \in DOMAIN llm_calls :
       (llm_calls[i].mode = "step" /\ CallFailed(llm_calls[i])) =>
         /\ llm_results[i].step.step_number = llm_calls[i].steps[1]
         /\ IsFallback(llm_results[i])
         /\ llm_calls[i].outcome = "raise" =>
              llm_results[i].agent_decisions[1].error = "LLM unavailable"
         /\ pc = "done" =>
              \E j \in DOMAIN ReportedVerdicts : ReportedVerdicts[j] = llm_results[i]
  /\ \A i \in DOMAIN llm_calls :
       (llm_calls[i].mode = "batch" /\ CallFailed(llm_calls[i])) =>
         /\ Len(llm_results) = Len(needs_llm)
         /\ \A j \in DOMAIN llm_results :
              /\ llm_results[j].step = needs_llm[j][1]
              /\ IsFallback(llm_results[j])
              /\ llm_calls[i].outcome = "raise" =>
                   llm_results[j].agent_decisions[1].error = "LLM unavailable"
              /\ pc = "done" =>
                   \E m \in DOMAIN ReportedVerdicts : ReportedVerdicts[m] = llm_results[j]
  /\ llm_calls # <<>> => error = "" /\ pc \in {"per_step", "reporting", "done"}
  /\ pc = "per_step" => ENABLED VerifyStep
  /\ pc = "batch" => ENABLED VerifyBatch
  /\ (pc = "reporting" /\ llm_calls # <<>> /\ \A i \in DOMAIN llm_calls : CallFailed(llm_calls[i]))
       => ENABLED Report
  /\ pc = "done" => report # <<>> /\ sink[Len(sink)].status = "completed"

\* C9 happens: a run completed after a per-step call raised and another
\* returned an empty response
C9_Witness ==
  /\ pc = "done"
  /\ report # <<>>
  /\ \E i, j \in DOMAIN llm_calls :
       /\ llm_calls[i].mode = "step" /\ llm_calls[i].outcome = "raise"
       /\ llm_calls[j].mode = "step" /\ llm_calls[j].outcome = "empty"
  /\ \E m \in DOMAIN ReportedVerdicts :
       /\ ReportedVerdicts[m].agent_decisions # <<>>
       /\ ReportedVerdicts[m].agent_decisions[1].error = "LLM unavailable"

\* the place of step number n in the plan
PlanPosition(n) == CHOOSE i \in DOMAIN plan : plan[i].step_number = n

\* C10: with k flagged steps, once verification is over: no adjudication call
\* was made if k = 0; k calls, one per flagged step in plan order, if
\* 1 <= k <= 4; one batched call covering the k steps if k >= 5.  At no time
\* are there more calls than flagged steps, nor two calls for one step.
C10_CallsByFlaggedCount ==
  /\ Len(llm_calls) <= Len(needs_llm)
  /\ \A i, j \in DOMAIN llm_calls :
       i < j => \A a \in DOMAIN llm_calls[i].steps : \A b \in DOMAIN llm_calls[j].steps :
                  llm_calls[i].steps[a] # llm_calls[j].steps[b]
  /\ pc \in {"reporting", "done"} =>
       /\ Len(needs_llm) = 0 => llm_calls = <<>>
       /\ (1 <= Len(needs_llm) /\ Len(needs_llm) <= 4) =>
            /\ Len(llm_calls) = Len(needs_llm)
            /\ \A i \in DOMAIN llm_calls :
                 /\ llm_calls[i].mode = "step"
                 /\ llm_calls[i].steps = << needs_llm[i][1].step_number >>
            /\ \A i, j \in DOMAIN llm_calls :
                 i < j => PlanPosition(llm_calls[i].steps[1]) < PlanPosition(llm_calls[j].steps[1])
       /\ Len(needs_llm) >= 5 =>
            /\ Len(llm_calls) = 1
            /\ llm_calls[1].mode = "batch"
            /\ llm_calls[1].steps = StepNumbers(needs_llm)
            /\ Len(llm_calls[1].steps) = Len(needs_llm)

\* C10 happens: five flagged steps, one batched call, which failed
C10_Witness ==
  /\ pc = "done"
  /\ Len(needs_llm) >= 5
  /\ Len(llm_calls) = 1
  /\ llm_calls[1].mode = "batch"
  /\ llm_calls[1].outcome = "raise"

\* the step numbers of the verdicts given as context to the i-th call
ContextSteps(i) ==
  { llm_calls[i].previous_results[j].step.step_number :
      j \in DOMAIN llm_calls[i].previous_results }

\* C11: in per-step mode the calls are issued one at a time in plan order:
\* when the call for a flagged step is issued, the verdict of every step
\* earlier in the plan exists, and the previous_results given to the call are
\* the deterministic verdicts followed by the semantic verdicts of the
\* flagged steps before it, so they hold all of those verdicts.
C11_PerStepContext ==
  \A i \in DOMAIN llm_calls :
    llm_calls[i].mode = "step" =>
      /\ Len(llm_results) = Len(llm_calls)
      /\ llm_calls[i].steps = << needs_llm[i][1].step_number >>
      /\ llm_calls[i].previous_results = code_results \o SubSeq(llm_results, 1, i - 1)
      /\ \A j \in 1..(i - 1) :
           PlanPosition(llm_calls[j].steps[1]) < PlanPosition(llm_calls[i].steps[1])
      /\ \A p \in 1..(PlanPosition(llm_calls[i].steps[1]) - 1) :
           plan[p].step_number \in ContextSteps(i)

\* C11 happens: the third per-step call of a run, with the verdicts of the
\* two flagged steps before it and of an unflagged earlier step as context
C11_Witness ==
  /\ Len(llm_calls) >= 3
  /\ llm_calls[3].mode = "step"
  /\ PlanPosition(llm_calls[3].steps[1]) >= 4
  /\ code_results # <<>>
  /\ Len(llm_calls[3].previous_results) = Len(code_results) + 2

\* no event of the list lies before the floor
NoneBefore(events, floor) == \A i \in DOMAIN events : events[i].timestamp >= floor

\* C12: no event returned by find_events_matching, strict or relaxed, has a
\* timestamp below min_timestamp; so the best match that
\* verify_step_against_timeline uses as a step's evidence, alone or in the
\* gathering loop, never lies before the step's floor.
C12_FloorRespected ==
  /\ (pc = "returned" /\ call.op = "match") =>
       /\ NoneBefore(ret[1].strict, call.min_timestamp)
       /\ NoneBefore(ret[1].relaxed, call.min_timestamp)
  /\ (pc = "returned" /\ call.op = "evidence" /\ ret[1].found) =>
       /\ ret[1].timestamp[1] >= min_timestamp(call.previous_step_timestamp)
       /\ NoneBefore(ret[1].matching_events, min_timestamp(call.previous_step_timestamp))
  /\ call.op = "gather" =>
       \A i \in DOMAIN ret :
         ret[i].evidence.found => ret[i].evidence.timestamp[1] >= ret[i].min_timestamp

\* C12 happens: an event that matches two keywords lies before the floor and
\* is left out of a result that is not empty
C12_Witness ==
  /\ pc = "returned"
  /\ call.op = "match"
  /\ ret[1].strict # <<>>
  /\ \E i \in DOMAIN call.events :
       /\ call.events[i].timestamp < call.min_timestamp
       /\ KeywordMatches(call.events[i], call.keywords) >= 2

\* the turns before turn i of the gathering loop that found evidence
FoundBefore(i) == { j \in 1..(i - 1) : ret[j].evidence.found }

\* the latest of them
LastFoundBefore(i) == CHOOSE j \in FoundBefore(i) : \A k \in FoundBefore(i) : k <= j

\* C13: in the gathering loop the floor used for a step is max(0, t + 0.5),
\* t being the timestamp of the best match of the latest earlier step whose
\* evidence was found; a step whose evidence is not found leaves the floor of
\* the step after it as it was.
C13_FloorFollowsLastFound ==
  call.op = "gather" =>
    /\ \A i \in DOMAIN ret :
         /\ FoundBefore(i) # {} =>
              ret[i].min_timestamp
                = Max(0, ret[LastFoundBefore(i)].evidence.matching_events[1].timestamp + 5)
         /\ (i > 1 /\ ~ret[i - 1].evidence.found) =>
              ret[i].min_timestamp = ret[i - 1].min_timestamp
    /\ pc = "returned" =>
         GatherEvidence(call.steps, call.timeline)
           = [i \in DOMAIN ret |-> <<ret[i].step, ret[i].evidence>>]

\* C13 happens: evidence found, then not found, then found again above the
\* floor that the first step set
C13_Witness ==
  /\ pc = "returned"
  /\ call.op = "gather"
  /\ Len(ret) = 3
  /\ ret[1].evidence.found
  /\ ~ret[2].evidence.found
  /\ ret[3].evidence.found
  /\ ret[3].min_timestamp = ret[1].evidence.timestamp[1] + 5
  /\ ret[3].min_timestamp > ret[1].min_timestamp

\* the set of the events of a list
EventSet(events) == { events[i] : i \in DOMAIN events }

\* C14: for the same timeline, keywords and min_timestamp, the events
\* find_events_matching returns in relaxed mode include every event it
\* returns in strict mode.
C14_RelaxedIncludesStrict ==
  (pc = "returned" /\ call.op = "match") =>
    EventSet(ret[1].strict) \subseteq EventSet(ret[1].relaxed)

\* C14 happens: the strict result is not empty and the relaxed one has more
C14_Witness ==
  /\ pc = "returned"
  /\ call.op = "match"
  /\ ret[1].strict # <<>>
  /\ Len(ret[1].relaxed) > Len(ret[1].strict)

\* what C15 says of the evidence e returned for the keywords kw and the
\* floor, strict and relaxed being the results of the two searches
EvidenceAsClaimed(e, kw, floor, strict, relaxed) ==
  /\ strict # <<>> => e.matching_events = strict
  /\ strict = <<>> => e.matching_events = relaxed
  /\ e.found <=> relaxed # <<>>
  /\ ~e.found =>
       /\ e.confidence = 0
       /\ e.timestamp = <<>>
       /\ e.frame_number = <<>>
       /\ e.matching_events = <<>>
       /\ \A k \in 1..Min(5, Len(kw)) : Contains(e.reasoning, kw[k])
       /\ Contains(e.reasoning, Fmt1(floor))
  /\ e.found =>
       /\ e.timestamp = << e.matching_events[1].timestamp >>
       /\ e.frame_number = << e.matching_events[1].frame_number >>
       /\ e.description = e.matching_events[1].description
       /\ \A j \in DOMAIN e.matching_events :
            FinalScore(e.matching_events[1], kw) >= FinalScore(e.matching_events[j], kw)

\* the same, the two searches made for the keywords and the floor
EvidenceOfSearches(e, events, kw, floor) ==
  EvidenceAsClaimed(e, kw, floor, find_events_matching(events, kw, floor, TRUE),
                    find_events_matching(events, kw, floor, FALSE))

\* the keywords of the step of the evidence call
CallKeywords == _extract_keywords(call.step.description, call.step.action)

\* C15: verify_step_against_timeline uses the strict result when it is not
\* empty and the relaxed one otherwise; when that is empty too (also for a
\* timeline without events) it returns evidence not found, with confidence
\* 0.0, no timestamp, no frame, no matching events and a reasoning that names
\* the keywords searched and the floor; when there is a match the evidence is
\* found and its timestamp and frame are those of the first, highest-scored,
\* match.
C15_StrictThenRelaxed ==
  (pc = "returned" /\ call.op = "evidence") =>
    EvidenceOfSearches(ret[1], call.timeline.events, CallKeywords,
                       min_timestamp(call.previous_step_timestamp))

\* C15 happens: the timeline has events that match, all of them before the
\* floor, and the evidence is not found
C15_Witness ==
  /\ pc = "returned"
  /\ call.op = "evidence"
  /\ ~ret[1].found
  /\ call.previous_step_timestamp = <<30>>
  /\ \E i \in DOMAIN call.timeline.events :
       KeywordMatches(call.timeline.events[i], CallKeywords) >= 2
  /\ Contains(ret[1].reasoning, <<"3", ".", "5", "s">>)

\* the list is in descending order of final score for the keywords, events
\* of equal score in chronological order
ByScoreThenTime(events, kw) ==
  \A i, j \in DOMAIN events :
    i < j =>
      /\ FinalScore(events[i], kw) >= FinalScore(events[j], kw)
      /\ FinalScore(events[i], kw) = FinalScore(events[j], kw) =>
           events[i].timestamp <= events[j].timestamp

\* C16: the events find_events_matching returns are in descending order of
\* final score, (matches/len(keywords) + 0.2 per keyword longer than 3
\* characters found in the description + event-type bonus + confidence) / 2,
\* and events of equal final score are in chronological order.
C16_ScoreThenChronological ==
  (pc = "returned" /\ call.op = "match") =>
    /\ ByScoreThenTime(ret[1].strict, call.keywords)
    /\ ByScoreThenTime(ret[1].relaxed, call.keywords)

\* the list is in descending order of final score
ByScore(events, kw) ==
  \A i, j \in DOMAIN events :
    i < j => FinalScore(events[i], kw) >= FinalScore(events[j], kw)

\* the place of an event in the timeline given to the call
PlaceInTimeline(e) == CHOOSE i \in DOMAIN call.events : call.events[i] = e

\* events of equal score are in the order of the timeline given
TiesInListOrder(events, kw) ==
  \A i, j \in DOMAIN events :
    (i < j /\ FinalScore(events[i], kw) = FinalScore(events[j], kw)) =>
      PlaceInTimeline(events[i]) < PlaceInTimeline(events[j])

\* What holds of the order instead: descending score, ties in list order
OrderThatHolds ==
  (pc = "returned" /\ call.op = "match") =>
    /\ ByScore(ret[1].relaxed, call.keywords)
    /\ TiesInListOrder(ret[1].relaxed, call.keywords)

\* C17: when frame sampling yields no frames at all the run is aborted: a
\* FAILED record with the error is emitted and no report is returned.
C17_NoFramesAborts ==
  (pc \notin {"start", "extraction"} /\ all_frames = <<>>) =>
    /\ pc = "raised"
    /\ error # ""
    /\ report = <<>>
    /\ sink[Len(sink)].status = "failed"

\* a run whose sampling yielded no frames completed with a report
NoFramesCompleted ==
  /\ pc = "done"
  /\ all_frames = <<>>
  /\ error = ""
  /\ report # <<>>
  /\ sink[Len(sink)].status = "completed"


\* C18: when two runs interleave on one orchestrator, every progress record
\* a run produced is in that run's own sink and in no other, and the count
\* of vision calls in a run's metrics is the count of the calls the run
\* itself made.
C18_RequestScoped ==
  pc = "shared" =>
    \A r \in RunIds :
      /\ \A i \in 1..Len(runs[r].sink) : runs[r].sink[i].from = r
      /\ Len(runs[r].sink) = runs[r].emitted
      /\ runs[r].at = "done" =>
           runs[r].vision_llm_calls = << IF runs[r].key_frames = <<>> THEN 0 ELSE 1 >>

\* a record of one run is in the sink of another
ForeignRecord ==
  /\ pc = "shared"
  /\ \E r \in RunIds : \E i \in 1..Len(runs[r].sink) : runs[r].sink[i].from # r

\* the metrics of a run count a vision call of another run
ForeignCall ==
  /\ pc = "shared"
  /\ \E r \in RunIds :
       /\ runs[r].at = "done"
       /\ runs[r].key_frames # <<>>
       /\ runs[r].vision_llm_calls = <<2>>


\* the timeline call of the run was made and failed, or its response could
\* not be recovered by any parsing strategy
TimelineCallFailed ==
  /\ vision_task.done
  /\ key_frames # <<>>
  /\ vision_task.response \in {"raise", "unparseable"}

\* C19: when the timeline call fails or its response cannot be parsed,
\* analyze_video_comprehensive returns a timeline with zero events and raises
\* nothing; the run is not aborted, verifies against the empty timeline and
\* returns a report with one verdict for each planned step.
C19_EmptyTimelineNotFatal ==
  TimelineCallFailed =>
    /\ vision_task.result # <<>>
    /\ vision_task.result[1].events = <<>>
    /\ pc # "raised"
    /\ error = ""
    /\ \A i \in DOMAIN sink : sink[i].status # "failed"
    /\ timeline # <<>> => timeline[1].events = <<>>
    /\ pc \in {"per_step", "batch", "reporting", "done"} =>
         /\ Len(initial_evidence) = Len(plan)
         /\ \A i \in DOMAIN initial_evidence : ~initial_evidence[i][2].found
    /\ pc = "done" =>
         /\ report # <<>>
         /\ Len(ReportedVerdicts) = Len(plan)
         /\ { ReportedVerdicts[i].step.step_number : i \in DOMAIN ReportedVerdicts }
              = { plan[i].step_number : i \in DOMAIN plan }
         /\ sink[Len(sink)].status = "completed"

\* C19 happens: the response was unparseable and the run returned its report
C19_Witness ==
  /\ TimelineCallFailed
  /\ vision_task.response = "unparseable"
  /\ pc = "done"
  /\ Len(plan) > 1
  /\ Len(ReportedVerdicts) = Len(plan)

\* the timeline call raised and the run returned its report
C19_RaisedCompleted ==
  /\ TimelineCallFailed
  /\ vision_task.response = "raise"
  /\ pc = "done"
  /\ Len(ReportedVerdicts) = Len(plan)


\* the triage calls among the calls of a session made so far
TriageTurns ==
  IF pc \in {"call", "returned"} /\ call.op = "session"
  THEN { i \in DOMAIN ret : ret[i].kind = "triage" } ELSE {}

Readable(data) ==
  /\ data.is_object
  /\ data.has_status => data.status_str
  /\ data.conf_kind # "bad"

\* the status the claim gives a verdict for the element
StatusAsClaimed(data) ==
  IF ~data.has_status THEN "uncertain"
  ELSE IF data.status \in {StatusObserved, StatusObservedCapital, StatusObservedUpper}
       THEN "observed"
  ELSE IF data.status \in {StatusDeviation, StatusDeviationUpper} THEN "deviation"
  ELSE "uncertain"

\* the confidence the claim gives a verdict for the element, in hundredths
ConfidenceAsClaimed(data) ==
  IF data.conf_kind = "absent" THEN 50
  ELSE IF data.conf < 0 THEN 0
  ELSE IF data.conf > 100 THEN 100
  ELSE data.conf

DecisionAsClaimed(verdict, data) ==
  /\ verdict.status = StatusAsClaimed(data)
  /\ verdict.confidence = ConfidenceAsClaimed(data)
  /\ Len(verdict.agent_decisions) = 1
  /\ ~verdict.agent_decisions[1].fallback

\* every element of the array that the batch parser uses is readable
BatchReadable ==
  /\ call.response.kind = "array"
  /\ \A i \in 1..Min(Len(call.steps_to_verify), Len(call.response.elems)) :
       Readable(call.response.elems[i])

\* C21: when the adjudication response parses, the verdict has the status of
\* the decision if that is observed, deviation or uncertain in any case and
\* uncertain otherwise, and the confidence of the decision clamped to
\* [0, 1], 0.5 when the decision gives none; per step and per element of a
\* batch.
C21_SemanticVerdictFollowsDecision ==
  /\ (pc = "returned" /\ call.op = "parse" /\ call.response.kind = "object"
        /\ Readable(call.response.obj))
       => DecisionAsClaimed(ret[1], call.response.obj)
  /\ (pc = "returned" /\ call.op = "parse_batch" /\ BatchReadable)
       => \A i \in 1..Min(Len(call.steps_to_verify), Len(call.response.elems)) :
            DecisionAsClaimed(ret[i], call.response.elems[i])

\* C21 happens: a batch whose elements spell a status in upper case with a
\* confidence above 1, and give a status that is none of the three
C21_Witness ==
  /\ pc = "returned"
  /\ call.op = "parse_batch"
  /\ BatchReadable
  /\ Len(call.response.elems) >= 2
  /\ Len(ret) >= 2
  /\ call.response.elems[1].status = StatusObservedUpper
  /\ call.response.elems[1].conf = 150
  /\ ret[1].status = "observed"
  /\ ret[1].confidence = 100
  /\ call.response.elems[2].status = StatusPassed
  /\ ret[2].status = "uncertain"
  /\ ret[2].confidence = 35

\* a per-step answer in mixed case with a negative confidence
C21_PerStepHappens ==
  /\ pc = "returned"
  /\ call.op = "parse"
  /\ call.response.kind = "object"
  /\ call.response.obj.status = StatusObservedCapital
  /\ call.response.obj.conf_kind = "num"
  /\ call.response.obj.conf < 0
  /\ ret[1].status = "observed"
  /\ ret[1].confidence = 0


\* the records of the watchdog in the sink: the callbacks of the vision
\* phase report 0.30, 0.35, 0.38, 0.40, 0.58 and 0.60, a tick a value between
WatchdogTicks ==
  { i \in DOMAIN sink : /\ sink[i].phase = "vision"
                        /\ ~Leq(sink[i].progress, Pct(40))
                        /\ ~Leq(Pct(58), sink[i].progress) }

\* C22: while the timeline call is in progress the watchdog emits ticks, so a
\* call that took three seconds, more than the two seconds between ticks,
\* leaves one in the sink; a tick is above 0.40 and at most 0.58 and is
\* emitted only before the call completed; the timeline of the phase is the
\* one the call produced.
C22_WatchdogTicks ==
  /\ (vision_task.done /\ vision_task.seconds >= 3) => WatchdogTicks # {}
  /\ \A i \in DOMAIN sink :
       (sink[i].phase = "vision" /\ ~Leq(sink[i].progress, Pct(40)))
         => Leq(sink[i].progress, Pct(60))
  /\ (vision_task.done /\ timeline # <<>>) => timeline = vision_task.result

\* the part of C22 that needs no tick: the timeline of the phase is the one
\* the call produced, and no run has a record of the watchdog
PhaseReturnsCallTimeline ==
  /\ (vision_task.done /\ timeline # <<>>) => timeline = vision_task.result
  /\ WatchdogTicks = {}

\* a timeline call of three seconds returned and the run went on
LongCallCompleted ==
  /\ vision_task.done
  /\ vision_task.seconds >= 3
  /\ pc = "done"
  /\ timeline = vision_task.result


\* the phases of a run without failure, in the order of the pipeline
PhaseOrder ==
  << "planning", "extraction", "key_frames", "ocr", "vision", "verification",
     "reporting", "complete" >>

\* the place of the phase of record i of the sink in PhaseOrder, 0 for none
PhaseIndex(i) ==
  IF \E k \in DOMAIN PhaseOrder : PhaseOrder[k] = sink[i].phase
  THEN CHOOSE k \in DOMAIN PhaseOrder : PhaseOrder[k] = sink[i].phase
  ELSE 0

\* C23: in a run in which no phase fails, the records enter the phases in
\* the order planning, extraction, key_frames, ocr, vision, verification,
\* reporting, complete, none skipped and none entered again after a later
\* one; when the run is done the last record is the only COMPLETED one, it
\* has progress 1.0, and every earlier record is PROCESSING.
C23_PhasesInOrder ==
  (pc \notin {"call", "returned", "shared"} /\ error = "") =>
    /\ \A i \in DOMAIN sink : PhaseIndex(i) > 0
    /\ sink # <<>> => PhaseIndex(1) = 1
    /\ \A i \in 2..Len(sink) :
         PhaseIndex(i) \in {PhaseIndex(i - 1), PhaseIndex(i - 1) + 1}
    /\ pc = "done" =>
         /\ sink # <<>>
         /\ PhaseIndex(Len(sink)) = Len(PhaseOrder)
         /\ sink[Len(sink)].status = "completed"
         /\ sink[Len(sink)].progress = Clamp(Pct(100))
         /\ \A i \in 1..(Len(sink) - 1) : sink[i].status = "processing"
    /\ pc # "done" => \A i \in DOMAIN sink : sink[i].status = "processing"

\* C23 happens: a run with two adjudication calls, each with its record of
\* the verification phase, is done
C23_Witness ==
  /\ pc = "done"
  /\ error = ""
  /\ Len(llm_calls) >= 2
  /\ Cardinality({ i \in DOMAIN sink : sink[i].phase = "verification" }) >= 3
  /\ Cardinality({ i \in DOMAIN sink : sink[i].phase = "vision" }) >= 4
  /\ sink[Len(sink)].status = "completed"


\* extract_key_frames returned for more than 15 frames
ManyFramesReturned ==
  pc = "returned" /\ call.op = "key_frames" /\ Len(call.all_frames) > MaxKeyFrames

\* what C24 says of the result but for the places of the middle frames: 15
\* frames of all_frames at strictly increasing indices, the first one first
\* and the last one last
FifteenInOrder ==
  /\ Len(ret) = MaxKeyFrames
  /\ \A k \in DOMAIN ret : ret[k] = call.all_frames[ret[k].frame_number + 1]
  /\ \A k \in 2..Len(ret) : ret[k - 1].frame_number < ret[k].frame_number
  /\ ret[1] = call.all_frames[1]
  /\ ret[Len(ret)] = call.all_frames[Len(call.all_frames)]

\* C24: extract_key_frames with max_key_frames = 15 returns n <= 15 frames
\* unchanged; for n > 15 it returns 15 frames of all_frames at strictly
\* increasing indices, the first frame first and the last frame last, the
\* middle ones at the indices floor(i * n / 14), i = 1..13.
C24_KeyFramesAtFloor ==
  /\ (pc = "returned" /\ call.op = "key_frames" /\ Len(call.all_frames) <= MaxKeyFrames)
       => ret = call.all_frames
  /\ ManyFramesReturned =>
       /\ FifteenInOrder
       /\ \A i \in 1..13 :
            ret[i + 1].frame_number = (i * Len(call.all_frames)) \div 14

\* C24 as the code has it: the middle frame i is at int(i * (n / 14)) in
\* double arithmetic, which is floor(i * n / 14) when i * n is no multiple of
\* 14 and floor(i * n / 14) or one less when it is.
C24_KeyFramesAtFloatIndex ==
  /\ (pc = "returned" /\ call.op = "key_frames" /\ Len(call.all_frames) <= MaxKeyFrames)
       => ret = call.all_frames
  /\ ManyFramesReturned =>
       /\ FifteenInOrder
       /\ \A i \in 1..13 :
            LET n == Len(call.all_frames)
            IN  /\ ret[i + 1].frame_number \in {(i * n) \div 14, ((i * n) \div 14) - 1}
                /\ (i * n) % 14 # 0 => ret[i + 1].frame_number = (i * n) \div 14

\* C24 happens: of 122 frames the seventh middle frame is frame 60
C24_Witness ==
  /\ ManyFramesReturned
  /\ Len(call.all_frames) = 122
  /\ Len(ret) = MaxKeyFrames
  /\ ret[8].frame_number = 60
  /\ ret[15].frame_number = 121


\* C25: the events of the timeline the run matches against are in
\* non-decreasing order of timestamp, whatever the order of the response.
C25_TimelineSortedByTime ==
  /\ vision_task.done =>
       \A i, j \in DOMAIN vision_task.result[1].events :
         i < j => vision_task.result[1].events[i].timestamp
                    <= vision_task.result[1].events[j].timestamp
  /\ timeline # <<>> =>
       \A i, j \in DOMAIN timeline[1].events :
         i < j => timeline[1].events[i].timestamp <= timeline[1].events[j].timestamp

\* the run matched against a timeline whose events are out of order
UnsortedTimelineUsed ==
  /\ pc = "done"
  /\ timeline # <<>>
  /\ \E i, j \in DOMAIN timeline[1].events :
       i < j /\ timeline[1].events[i].timestamp > timeline[1].events[j].timestamp


\* the passes of a call of generate made so far
Passes == IF pc \in {"call", "returned"} /\ call.op = "generate" THEN DOMAIN ret ELSE {}

\* the exception is a rate-limit error
RateLimited(outcome) ==
  outcome.kind = "raise" /\ outcome.msg \in {ErrTooManyRequests, ErrResourceExhausted, ErrDeadline4290}

\* the safety part of C26
GenerateBounded ==
  /\ Cardinality(Passes) <= 6
  /\ \A k \in Passes :
       /\ ret[k].attempt = k - 1
       /\ k < Len(ret) =>
            /\ RateLimited(ret[k].outcome)
            /\ ~ret[k].returned
            /\ ret[k].delay = <<5, 10, 20, 40, 80>>[k]
       /\ ~ret[k].returned => (RateLimited(ret[k].outcome) /\ k < 6)
       /\ (RateLimited(ret[k].outcome) /\ k < 6) => ~ret[k].returned
       /\ ret[k].returned =>
            /\ k = Len(ret)
            /\ pc = "returned"
            /\ ret[k].outcome.kind = "empty" => ret[k].value = <<"{","}">>
            /\ ret[k].outcome.kind = "text" => ret[k].value = <<"t","e","x","t">>
            /\ ret[k].outcome.kind = "raise" =>
                 ret[k].value = TxtErrorGenerating \o ret[k].outcome.msg
  /\ (Passes # {} /\ pc = "returned") => ret[Len(ret)].returned

\* C26: GeminiProvider.generate makes at most 6 attempts, tries again only
\* after a rate-limit error, after a sleep of 5, 10, 20, 40 and 80 seconds,
\* returns an error string on any other error and when the sixth attempt is
\* rate-limited, returns "{}" when the model gives no text, and every call
\* returns.
C26_GenerateTerminates ==
  /\ []GenerateBounded
  /\ (pc = "call" /\ call.op = "generate") ~> (pc = "returned")

\* C26 happens: six attempts were rate-limited and the call returned the
\* error string
C26_Witness ==
  /\ pc = "returned"
  /\ call.op = "generate"
  /\ Len(ret) = 6
  /\ \A k \in 1..6 : RateLimited(ret[k].outcome)
  /\ ret[5].delay = 80
  /\ ret[6].returned
  /\ ret[6].value = TxtErrorGenerating \o ret[6].outcome.msg


\* a verdict of the deterministic path as C27 has it
DecidedAsClaimed(v) ==
  /\ v.agent_decisions = <<>>
  /\ \/ v.status = "observed" /\ v.confidence >= 90
     \/ v.status = "deviation" /\ v.confidence < 50

FoundPlaces ==
  IF pc \in {"per_step", "batch", "reporting", "done"}
  THEN { i \in DOMAIN initial_evidence : initial_evidence[i][2].found } ELSE {}

\* C28: over the steps of a run whose evidence is found, in the order of the
\* plan, each evidence timestamp is at least 0.5 s after the one before, and
\* the first is at least 0.5 s: an event before 0.5 s is the evidence of no
\* step.
C28_FoundTimestampsApart ==
  /\ \A i \in FoundPlaces :
       /\ initial_evidence[i][2].timestamp # <<>>
       /\ initial_evidence[i][2].timestamp[1] >= 5
  /\ \A i, j \in FoundPlaces :
       i < j => initial_evidence[j][2].timestamp[1] >= initial_evidence[i][2].timestamp[1] + 5

\* C28 happens: the timeline has an event at 0.2 s, and two steps found
\* their evidence, neither at that event
C28_Witness ==
  /\ pc = "done"
  /\ \E k \in DOMAIN timeline[1].events : timeline[1].events[k].timestamp < 5
  /\ Cardinality(FoundPlaces) >= 2
  /\ \E i, j \in FoundPlaces :
       i < j /\ initial_evidence[i][2].timestamp[1] < initial_evidence[j][2].timestamp[1]


\* the batch parser returned for a response that is a JSON array
BatchArrayParsed == pc = "returned" /\ call.op = "parse_batch" /\ call.response.kind = "array"

\* the elements of the array that stand at the place of a flagged step
UsedElements == 1..Min(Len(call.steps_to_verify), Len(call.response.elems))

\* the fallback verdict for flagged step i
FallbackFor(i) ==
  /\ ret[i].step = call.steps_to_verify[i][1]
  /\ ret[i].status = "uncertain"
  /\ ret[i].confidence = 50
  /\ Len(ret[i].agent_decisions) = 1
  /\ ret[i].agent_decisions[1].fallback

\* C29: in batch mode element i of the array decides flagged step i,
\* whatever step_number it names; a flagged step beyond the end of the array
\* gets the fallback verdict; elements beyond the last flagged step are
\* ignored; and when an element that is used is no object or has a
\* confidence that is no number, every flagged step gets the fallback
\* verdict.
C29_BatchByPosition ==
  BatchArrayParsed =>
    /\ Len(ret) = Len(call.steps_to_verify)
    /\ IF \A k \in UsedElements : Readable(call.response.elems[k])
       THEN \A i \in DOMAIN ret :
              IF i \in UsedElements
              THEN /\ ret[i].step = call.steps_to_verify[i][1]
                   /\ ret[i].status = StatusAsClaimed(call.response.elems[i])
                   /\ ret[i].confidence = ConfidenceAsClaimed(call.response.elems[i])
                   /\ ret[i].agent_decisions[1].batch_verified
                   /\ ~ret[i].agent_decisions[1].fallback
              ELSE FallbackFor(i)
       ELSE \A i \in DOMAIN ret : FallbackFor(i)

\* C29 happens: three flagged steps, 2, 4 and 5, and an array of two
\* elements that both name step 1
C29_Witness ==
  /\ BatchArrayParsed
  /\ Len(call.steps_to_verify) = 3
  /\ Len(call.response.elems) = 2
  /\ \A k \in 1..2 : Readable(call.response.elems[k]) /\ call.response.elems[k].step_number = 1
  /\ ret[1].step.step_number = 2
  /\ ret[1].status = "observed"
  /\ ret[2].step.step_number = 4
  /\ ret[2].status = "deviation"
  /\ ret[3].agent_decisions[1].fallback

\* a response with four elements for three flagged steps, the fourth no
\* object: it is ignored
ExtraElementIgnored ==
  /\ BatchArrayParsed
  /\ Len(call.steps_to_verify) = 3
  /\ Len(call.response.elems) = 4
  /\ ~call.response.elems[4].is_object
  /\ \A i \in 1..3 : ~ret[i].agent_decisions[1].fallback

\* one malformed element among those used: every step falls back
OneMalformedAllFallBack ==
  /\ BatchArrayParsed
  /\ Len(call.steps_to_verify) = 3
  /\ Len(call.response.elems) = 3
  /\ Readable(call.response.elems[1])
  /\ Readable(call.response.elems[2])
  /\ call.response.elems[3].is_object
  /\ call.response.elems[3].conf_kind = "bad"
  /\ \A i \in 1..3 : ret[i].agent_decisions[1].fallback


\* the evidence call found exactly one matching event, with fewer than 0.4
\* of the keywords in it and a confidence of its own within [0, 1]
SingleWeakMatch ==
  /\ pc = "returned"
  /\ call.op = "evidence"
  /\ ret[1].found
  /\ Len(ret[1].matching_events) = 1
  /\ KeywordMatches(ret[1].matching_events[1], CallKeywords) * 10
       < 4 * Max(Len(CallKeywords), 1)
  /\ ret[1].matching_events[1].confidence \in 0..100

WeakMatchAtCeiling ==
  /\ SingleWeakMatch
  /\ ret[1].matching_events[1].confidence >= 90
  /\ ret[1].confidence \in 75..80

=============================================================================
